---- MODULE Spec2Model ----
(***************************************************************************)
(* Provider synchronisation and command-dispatch engine of ClientDashboard *)
(* (ui/lib/kore.ts, ui/lib/rate-limit.ts, ui/utils/retry.ts and the        *)
(* command route).  Each component is a state machine over its own group   *)
(* of variables; one specification per component:                          *)
(*   SpecRetry  withRetry                        (utils/retry.ts)          *)
(*   SpecRL     enforceRateLimit                 (lib/rate-limit.ts)       *)
(*   SpecTok    getAccessToken                   (lib/kore.ts)             *)
(*   SpecList   listSimsFromKore                 (lib/kore.ts)             *)
(*   SpecListLive  the same, every request answered in the end             *)
(*   SpecDisp   POST of the command route        (unnamed/part_000)        *)
(*   SpecSync   POST of the device sync route    (unnamed/part_001)        *)
(*   SpecFleets POST of the fleet sync route     (unnamed/part_002)        *)
(*   SpecAccounts POST of api/accounts/sync      (accounts/sync/route.ts)  *)
(*   SpecScopes hasReadAccess, hasWriteAccess    (lib/auth/scopes.ts)      *)
(*   SpecConc   concurrent POSTs of api/accounts/sync                      *)
(*   SpecKore   koreFetch under the sim logs route and sendSmsCommand      *)
(*   SpecPar    parallelLimit, sequentialProcess    (unnamed/part_004)     *)
(***************************************************************************)
EXTENDS Integers, Sequences, FiniteSets, TLC

VARIABLES
    now,        \* Date.now(), in clock ticks
    store,      \* rate-limit.ts: const store = new Map<string, Bucket>()
    rlLimit,    \* options.limit of the enforceRateLimit calls
    rlWindow,   \* options.windowMs of the enforceRateLimit calls, in ticks
    rlLast,     \* the last enforceRateLimit call: its key and whether it returned
    rlPrev,     \* the store as it was before the last enforceRateLimit call
    gStart,     \* per key: the instant the current fixed window was opened
    gCalls,     \* per key: calls made in the current fixed window, rejected ones too
    wr,         \* withRetry: its locals (retries, baseDelayMs, attempt) and position
    wrLog,      \* withRetry: the invocations and sleeps so far, in order
    tokenCache,     \* kore.ts: const tokenCache = new Map<string, TokenCacheEntry>()
    tokenInFlight,  \* kore.ts: const tokenInFlight = new Map<string, Promise<string>>()
    fetches,    \* the promises made by getAccessToken, by id: tenant, stage, attempt
    nFetch,     \* how many of them were made
    callers,    \* the tasks calling getAccessToken: the promise each awaits
    tokLast,    \* the last getAccessToken result handed to a caller
    ls,         \* listSimsFromKore: its locals (candidate, nextPath, visited, sims)
    lsLast,     \* the answer to the last request: HttpOk, a status, OtherFailure
    lsLeft,     \* the answers on which a candidate was left for the next one
    lsBase,     \* how many sims were in the list when the current candidate began
    lsMaxReq,   \* the last candidate a request was sent to
    dp,         \* dispatch (POST): the request, the caller, the loops' position, and
                \* whether enforceRateLimit let it pass (gated)
    results,    \* dispatch: the results array
    response,   \* dispatch: the response returned, NoResponse before
    sent,       \* the commands the provider took, in order
    logs,       \* the commandLog rows created, in order
    simTable,   \* the Sim rows (prisma.sim)
    remote,     \* what the provider holds: per account the token endpoint's answer,
                \* per fleet the answers of the six listing candidates
    sy,         \* syncDevices (POST): the request, the caller, the loops' position
    summary,    \* syncDevices: the summary array
    syResponse, \* syncDevices: the response returned, NoResponse before
    syWarned,   \* syncDevices: the fleets logged as not found
    syFirst,    \* the Sim rows and the summary as the first run left them
    userScopes, \* the UserScope rows (prisma.userScope)
    fleetTable, \* the Fleet rows (prisma.fleet)
    sfRemote,   \* per account, what listFleetsFromKore meets at the provider
    sf,         \* syncFleets (POST): the request, the caller, the loops' position, and
                \* the Fleet rows as the run found them
    sfResults,  \* syncFleets: the results array
    sfResponse, \* syncFleets: the response returned, NoResponse before
    sfContacted,\* the accounts for which syncFleets called the provider
    acctTable,  \* the Account rows (prisma.account)
    ac,         \* syncAccountsFromConfig (POST): the caller, the loop's position, and
                \* the Account and UserScope rows as the call found them
    acResponse, \* syncAccountsFromConfig: the response returned, NoResponse before
    sh,         \* a call of hasReadAccess and hasWriteAccess: arguments and results
    cc,         \* concurrent syncAccountsFromConfig calls: each call's position
    ccScopes,   \* the UserScope rows those calls read and write, with their ids
    kf,         \* a koreFetch call and the call around it: the sim logs route or
                \* sendSmsCommand; its path, attempt and position
    wire,       \* the requests koreFetch put on the network, in order
    kfResponse, \* what the call returned, NoResponse before
    pl,         \* parallelLimit: its arguments, index, and each worker's item,
                \* attempt and position
    plStarted,  \* the items handed to workers, in order, with the worker
    plResult    \* what the promise parallelLimit returned has settled to

clockVars == <<now>>
rlVars    == <<store, rlLimit, rlWindow, rlLast, rlPrev, gStart, gCalls>>
retryVars == <<wr, wrLog>>
tokVars   == <<tokenCache, tokenInFlight, fetches, nFetch, callers, tokLast>>
listVars  == <<ls, lsLast, lsLeft, lsBase, lsMaxReq>>
dispVars  == <<dp, results, response, sent, logs>>
syncVars  == <<simTable, remote, sy, summary, syResponse, syWarned, syFirst>>
baseVars  == <<clockVars, rlVars, retryVars, tokVars, listVars, dispVars>>
usVars    == <<userScopes>>
sfVars    == <<fleetTable, sfRemote, sf, sfResults, sfResponse, sfContacted>>
acVars    == <<acctTable, ac, acResponse>>
shVars    == <<sh>>
ccVars    == <<cc, ccScopes>>
kfVars    == <<kf, wire, kfResponse>>
parVars   == <<pl, plStarted, plResult>>
thirdVars == <<ccVars, kfVars, parVars>>
laterVars == <<syncVars, usVars, sfVars, acVars, shVars>>
vars      == <<baseVars, laterVars, thirdVars>>

exceptRetry == <<clockVars, rlVars, tokVars, listVars, dispVars, laterVars, thirdVars>>
exceptRL    == <<retryVars, tokVars, listVars, dispVars, laterVars, thirdVars>>
exceptTok   == <<rlVars, retryVars, listVars, dispVars, laterVars, thirdVars>>
exceptList  == <<clockVars, rlVars, retryVars, tokVars, dispVars, laterVars, thirdVars>>
exceptDisp  == <<clockVars, rlVars, retryVars, tokVars, listVars, laterVars, thirdVars>>
exceptClock == <<rlVars, retryVars, tokVars, listVars, dispVars, laterVars, thirdVars>>
exceptSync  == <<baseVars, usVars, sfVars, acVars, shVars, thirdVars>>
exceptFleets == <<baseVars, syncVars, acVars, shVars, thirdVars>>
exceptAccounts == <<baseVars, syncVars, sfVars, shVars, thirdVars>>
exceptScopes == <<baseVars, syncVars, usVars, sfVars, acVars, thirdVars>>
exceptConc  == <<baseVars, syncVars, usVars, sfVars, ac, acResponse, shVars, kfVars, parVars>>
exceptKore  == <<baseVars, laterVars, ccVars, parVars>>
exceptPar   == <<baseVars, laterVars, ccVars, kfVars>>

None == "none"

\* ------------------------------------------------------------------ bounds
MaxNow     == 4     \* the clock stops ticking here
MaxLimit   == 3     \* limits 1..MaxLimit are tried
MaxWindow  == 2     \* window lengths 1..MaxWindow ticks are tried
MaxOver    == 2     \* calls made beyond the limit inside one window
MaxRetries == 3     \* retries 0..MaxRetries are tried

\* ------------------------------------------------------- utils/retry.ts
DefaultRetries == 3
DefaultBaseDelayMs == 500
SequentialBaseDelayMs == 250
JitterMs == 100

Values == {"v1", "v2"}
Errors == {"e1", "e2"}
Jitters == {0, JitterMs - 1}       \* Math.floor(Math.random() * 100): both ends
BaseDelays == {SequentialBaseDelayMs, DefaultBaseDelayMs}

RECURSIVE Pow2(_)
Pow2(n) == IF n <= 0 THEN 1 ELSE 2 * Pow2(n - 1)

\* retry.ts:17
Backoff(baseDelayMs, attempt, jitter) == baseDelayMs * Pow2(attempt - 1) + jitter

RetryExhaustedOffByOne(attempt, retries) == attempt >= retries
\* retry.ts:14  if (attempt > retries) throw error
RetryExhausted(attempt, retries) == attempt > retries

InitRetry ==
    /\ \E r \in 0..MaxRetries, b \in BaseDelays :
          wr = [pc |-> "call", retries |-> r, baseDelayMs |-> b, attempt |-> 0,
                result |-> None, thrown |-> None, lastError |-> None, backoff |-> 0]
    /\ wrLog = <<>>

IdleRetry ==
    /\ wr = [pc |-> "idle", retries |-> DefaultRetries, baseDelayMs |-> DefaultBaseDelayMs,
             attempt |-> 0, result |-> None, thrown |-> None, lastError |-> None,
             backoff |-> 0]
    /\ wrLog = <<>>

\* retry.ts:10-11  return await fn()   (fn succeeds)
WrInvokeOk(v) ==
    /\ wr.pc = "call"
    /\ wr' = [wr EXCEPT !.pc = "returned", !.result = v]
    /\ wrLog' = Append(wrLog, "ok")
    /\ UNCHANGED exceptRetry

\* retry.ts:12-18  fn throws e: count the attempt, re-throw or back off
WrInvokeFail(e, jitter) ==
    /\ wr.pc = "call"
    /\ LET attempt == wr.attempt + 1 IN
          IF RetryExhausted(attempt, wr.retries)
          THEN /\ wr' = [wr EXCEPT !.pc = "thrown", !.attempt = attempt,
                                   !.thrown = e, !.lastError = e]
               /\ wrLog' = Append(wrLog, "fail")
          ELSE /\ wr' = [wr EXCEPT !.pc = "sleep", !.attempt = attempt, !.lastError = e,
                                   !.backoff = Backoff(wr.baseDelayMs, attempt, jitter)]
               /\ wrLog' = Append(Append(wrLog, "fail"), "sleep")
    /\ UNCHANGED exceptRetry

\* retry.ts:18  await sleep(backoff) is over: next turn of the loop
WrWake ==
    /\ wr.pc = "sleep"
    /\ wr' = [wr EXCEPT !.pc = "call"]
    /\ UNCHANGED <<wrLog, exceptRetry>>

NextRetry ==
    \/ \E v \in Values : WrInvokeOk(v)
    \/ \E e \in Errors, j \in Jitters : WrInvokeFail(e, j)
    \/ WrWake

\* --------------------------------------------------- lib/rate-limit.ts
Keys == {"command:u1", "command:u2"}
NoBucket == [tokens |-> -1, resetAt |-> -1]

WindowOverStrict(bucket, t) == bucket = NoBucket \/ bucket.resetAt < t
\* rate-limit.ts:11  if (!bucket || bucket.resetAt <= now)
WindowOver(bucket, t) == bucket = NoBucket \/ bucket.resetAt <= t

\* rate-limit.ts:12  a fresh window: { tokens: limit - 1, resetAt: now + windowMs }
FreshBucket(limit, windowMs, t) == [tokens |-> limit - 1, resetAt |-> t + windowMs]

\* rate-limit.ts:15  if (bucket.tokens <= 0) throw new Error("Rate limit exceeded")
BucketEmpty(bucket) == bucket.tokens <= 0

\* rate-limit.ts:8-19  enforceRateLimit: whether it returns, and the store it leaves
EnforceRateLimit(st, key, limit, windowMs, t) ==
    IF WindowOver(st[key], t)
    THEN [ok |-> TRUE, store |-> [st EXCEPT ![key] = FreshBucket(limit, windowMs, t)]]
    ELSE IF BucketEmpty(st[key])
    THEN [ok |-> FALSE, store |-> st]
    ELSE [ok |-> TRUE, store |-> [st EXCEPT ![key].tokens = @ - 1]]

InitClock == now = 0

InitRLStore ==
    /\ store = [k \in Keys |-> NoBucket]
    /\ rlLast = [key |-> None, ok |-> TRUE]
    /\ rlPrev = store
    /\ gStart = [k \in Keys |-> -1]
    /\ gCalls = [k \in Keys |-> 0]

InitRL ==
    /\ InitRLStore
    /\ rlLimit \in 1..MaxLimit
    /\ rlWindow \in 1..MaxWindow

IdleRL ==
    /\ InitRLStore
    /\ rlLimit = 1
    /\ rlWindow = 1

\* The fixed window of a key, kept apart from the bucket: a call opens a window when
\* none was opened or the open one has run its length.
GhostWindowOpen(k, t) == gStart[k] >= 0 /\ t < gStart[k] + rlWindow

\* One enforceRateLimit(key, {limit, windowMs}) call at the current instant.
RlEnforce(k) ==
    /\ GhostWindowOpen(k, now) => gCalls[k] < rlLimit + MaxOver
    /\ LET r == EnforceRateLimit(store, k, rlLimit, rlWindow, now) IN
          /\ store' = r.store
          /\ rlLast' = [key |-> k, ok |-> r.ok]
    /\ rlPrev' = store
    /\ IF GhostWindowOpen(k, now)
       THEN /\ gCalls' = [gCalls EXCEPT ![k] = @ + 1]
            /\ UNCHANGED gStart
       ELSE /\ gCalls' = [gCalls EXCEPT ![k] = 1]
            /\ gStart' = [gStart EXCEPT ![k] = now]
    /\ UNCHANGED <<now, rlLimit, rlWindow, exceptRL>>

\* Time passes.
Tick ==
    /\ now < MaxNow
    /\ now' = now + 1
    /\ UNCHANGED exceptClock

NextRL ==
    \/ \E k \in Keys : RlEnforce(k)
    \/ Tick

\* ------------------------------------------ lib/kore.ts: getAccessToken
Tenants == {"t1", "t2"}
Callers == {"c1", "c2"}
MaxTokTicks == 1                \* clock ticks of a token run
MaxFetches == 2                 \* token fetches started in one run

SafetyMarginMs == 10000
DefaultExpiresInS == 3600
MsPerSecond == 1000
TickMs == 5 * MsPerSecond
Absent == -1                    \* a field the response does not carry
ExpiresIns == {10, 15, Absent}  \* expires_in of the token response, in seconds
TokStatuses == {401, 404}       \* non-2xx answers of the token endpoint

NoEntry == [token |-> 0, expiresAt |-> 0]
NoFetch == [tenant |-> None, stage |-> "unused", attempt |-> 0, why |-> None,
            status |-> 0]
NoResult == 0
ErrorResult == -1
FetchIds == 1..MaxFetches

CacheValidAtLeast(entry, t) == entry # NoEntry /\ entry.expiresAt >= t + SafetyMarginMs
\* kore.ts:69  cached && cached.expiresAt > Date.now() + 10_000
CacheValid(entry, t) == entry # NoEntry /\ entry.expiresAt > t + SafetyMarginMs

\* kore.ts:104  data.expires_in ?? 3600
ExpiresInOf(e) == IF e = Absent THEN DefaultExpiresInS ELSE e

\* kore.ts:105-108  the entry cached for the token of fetch f
NewEntry(f, e, t) == [token |-> f, expiresAt |-> t + ExpiresInOf(e) * MsPerSecond]

InFlightIgnored(t) == FALSE
\* kore.ts:72-73  const inflight = tokenInFlight.get(cacheKey); if (inflight) return inflight
InFlight(t) == tokenInFlight[t] # 0

Settled(f) == fetches[f].stage \in {"resolved", "rejected"}

\* kore.ts:111  return entry.token, or the rejection of the chained promise
PromiseResult(f) == IF fetches[f].stage = "resolved" THEN f ELSE ErrorResult

IdleCaller == [st |-> "idle", tenant |-> None, promise |-> 0]

InitTok ==
    /\ tokenCache = [t \in Tenants |-> NoEntry]
    /\ tokenInFlight = [t \in Tenants |-> 0]
    /\ fetches = [f \in FetchIds |-> NoFetch]
    /\ nFetch = 0
    /\ callers = [c \in Callers |-> IdleCaller]
    /\ tokLast = [tenant |-> None, promise |-> 0, result |-> NoResult]

\* kore.ts:68-71  the cached token is still good: returned with no request
TokCallCached(c, t) ==
    /\ callers[c].st = "idle"
    /\ CacheValid(tokenCache[t], now)
    /\ tokLast' = [tenant |-> t, promise |-> 0, result |-> tokenCache[t].token]
    /\ UNCHANGED <<callers, tokenCache, tokenInFlight, fetches, nFetch, now, exceptTok>>

\* kore.ts:72-73  a promise is in the map: the caller gets that promise
TokCallJoin(c, t) ==
    /\ callers[c].st = "idle"
    /\ ~CacheValid(tokenCache[t], now)
    /\ InFlight(t)
    /\ callers' = [callers EXCEPT ![c] = [st |-> "waiting", tenant |-> t,
                                          promise |-> tokenInFlight[t]]]
    /\ UNCHANGED <<tokLast, tokenCache, tokenInFlight, fetches, nFetch, now, exceptTok>>

\* kore.ts:74-113  nothing cached, nothing in the map: withRetry sends the first token
\* request, and the promise chained on it goes into the map and to the caller
TokCallFetch(c, t) ==
    /\ callers[c].st = "idle"
    /\ ~CacheValid(tokenCache[t], now)
    /\ ~InFlight(t)
    /\ nFetch < MaxFetches
    /\ LET f == nFetch + 1 IN
          /\ nFetch' = f
          /\ fetches' = [fetches EXCEPT ![f] = [tenant |-> t, stage |-> "http",
                                                 attempt |-> 0, why |-> None,
                                                 status |-> 0]]
          /\ tokenInFlight' = [tokenInFlight EXCEPT ![t] = f]
          /\ callers' = [callers EXCEPT ![c] = [st |-> "waiting", tenant |-> t,
                                                promise |-> f]]
    /\ UNCHANGED <<tokLast, tokenCache, now, exceptTok>>

\* retry.ts:12-18 around kore.ts:88  the request fails in transport (or times out):
\* withRetry backs off, or gives up and the chained promise rejects with the .then
\* callback never run
TokHttpFail(f) ==
    /\ fetches[f].stage = "http"
    /\ LET attempt == fetches[f].attempt + 1 IN
          fetches' = [fetches EXCEPT ![f] =
              IF RetryExhausted(attempt, DefaultRetries)
              THEN [@ EXCEPT !.stage = "rejected", !.attempt = 0, !.why = "transport"]
              ELSE [@ EXCEPT !.stage = "sleep", !.attempt = attempt]]
    /\ UNCHANGED <<tokenCache, tokenInFlight, nFetch, callers, tokLast, now, exceptTok>>

\* retry.ts:18  the back-off is over: the request is sent again
TokWake(f) ==
    /\ fetches[f].stage = "sleep"
    /\ fetches' = [fetches EXCEPT ![f].stage = "http"]
    /\ UNCHANGED <<tokenCache, tokenInFlight, nFetch, callers, tokLast, now, exceptTok>>

\* kore.ts:97-99,103  the token endpoint answers: withRetry returns (its attempt
\* counter is gone) and the callback awaits the body
TokHttpResponse(f, ok) ==
    /\ fetches[f].stage = "http"
    /\ fetches' = [fetches EXCEPT ![f].stage = IF ok THEN "okbody" ELSE "errbody",
                                  ![f].attempt = 0]
    /\ UNCHANGED <<tokenCache, tokenInFlight, nFetch, callers, tokLast, now, exceptTok>>

\* kore.ts:98-102  a non-2xx answer: the marker is deleted and KoreHttpError thrown
TokErrBody(f, status) ==
    /\ fetches[f].stage = "errbody"
    /\ fetches' = [fetches EXCEPT ![f].stage = "rejected", ![f].why = "status",
                                  ![f].status = status]
    /\ tokenInFlight' = [tokenInFlight EXCEPT ![fetches[f].tenant] = 0]
    /\ UNCHANGED <<tokenCache, nFetch, callers, tokLast, now, exceptTok>>

\* kore.ts:103  response.json() throws on a 2xx answer: the callback ends there
TokBodyUnreadable(f) ==
    /\ fetches[f].stage = "okbody"
    /\ fetches' = [fetches EXCEPT ![f].stage = "rejected", ![f].why = "badbody"]
    /\ UNCHANGED <<tokenCache, tokenInFlight, nFetch, callers, tokLast, now, exceptTok>>

\* kore.ts:103-111  the token is cached with its expiry, the marker deleted
TokBodyRead(f, e) ==
    /\ fetches[f].stage = "okbody"
    /\ fetches' = [fetches EXCEPT ![f].stage = "resolved"]
    /\ tokenCache' = [tokenCache EXCEPT ![fetches[f].tenant] = NewEntry(f, e, now)]
    /\ tokenInFlight' = [tokenInFlight EXCEPT ![fetches[f].tenant] = 0]
    /\ UNCHANGED <<nFetch, callers, tokLast, now, exceptTok>>

\* The awaited promise has settled: the caller resumes with its token or its error.
TokDeliver(c) ==
    /\ callers[c].st = "waiting"
    /\ Settled(callers[c].promise)
    /\ callers' = [callers EXCEPT ![c] = IdleCaller]
    /\ tokLast' = [tenant |-> callers[c].tenant, promise |-> callers[c].promise,
                   result |-> PromiseResult(callers[c].promise)]
    /\ UNCHANGED <<tokenCache, tokenInFlight, fetches, nFetch, now, exceptTok>>

\* Time passes.
TokTick ==
    /\ now < MaxTokTicks * TickMs
    /\ now' = now + TickMs
    /\ UNCHANGED <<tokVars, exceptTok>>

NextTok ==
    \/ \E c \in Callers, t \in Tenants : TokCallCached(c, t)
    \/ \E c \in Callers, t \in Tenants : TokCallJoin(c, t)
    \/ \E c \in Callers, t \in Tenants : TokCallFetch(c, t)
    \/ \E f \in FetchIds : TokHttpFail(f)
    \/ \E f \in FetchIds : TokWake(f)
    \/ \E f \in FetchIds, ok \in BOOLEAN : TokHttpResponse(f, ok)
    \/ \E f \in FetchIds, s \in TokStatuses : TokErrBody(f, s)
    \/ \E f \in FetchIds : TokBodyUnreadable(f)
    \/ \E f \in FetchIds, e \in ExpiresIns : TokBodyRead(f, e)
    \/ \E c \in Callers : TokDeliver(c)
    \/ TokTick

\* ---------------------------------------- lib/kore.ts: listSimsFromKore
NumCandidates == 6              \* kore.ts:214-221  the candidate endpoint forms
MaxPages == 2                   \* page URLs a candidate's answers may link to
HttpOk == 200
DataStatuses == {400, 404, 500} \* non-2xx answers; 500 stands for every other status
OtherFailure == -1              \* a failure that is no KoreHttpError
Untried == 0
\* The sids of the items of one page; "" is an item with no sid and no id.
ItemLists == {<<>>, <<"">>, <<"d1", "", "d2", "d3">>}

RECURSIVE WithSid(_)
\* kore.ts:232-238  normalizeSim each item, keep those with a sid
WithSid(items) ==
    IF items = <<>> THEN <<>>
    ELSE IF Head(items) = "" THEN WithSid(Tail(items))
    ELSE <<Head(items)>> \o WithSid(Tail(items))

IsFallbackStatusAny(status) == status # HttpOk
\* kore.ts:244  err instanceof KoreHttpError && (err.status === 404 || err.status === 400)
IsFallbackStatus(status) == status = 404 \/ status = 400

\* kore.ts:249  if (fetchedAny) break
BreakAfter(fetchedAny) == fetchedAny

MorePagesUnvisitedOrNot(nextPath, visited) == nextPath # 0
\* kore.ts:228  while (nextPath && !visited.has(nextPath))
MorePages(nextPath, visited) == nextPath # 0 /\ nextPath \notin visited

InitList ==
    /\ ls = [pc |-> "fetch", cand |-> 1, nextPath |-> 1, visited |-> {},
             fetchedAny |-> FALSE, sims |-> <<>>]
    /\ lsLast = Untried
    /\ lsLeft = {}
    /\ lsBase = 0
    /\ lsMaxReq = 0

IdleList ==
    /\ ls = [pc |-> "idle", cand |-> 1, nextPath |-> 1, visited |-> {},
             fetchedAny |-> FALSE, sims |-> <<>>]
    /\ lsLast = Untried
    /\ lsLeft = {}
    /\ lsBase = 0
    /\ lsMaxReq = 0

\* kore.ts:223-226  the for loop takes the next candidate, or kore.ts:251 returns
NextCandidate(l) ==
    IF l.cand < NumCandidates
    THEN [l EXCEPT !.cand = @ + 1, !.nextPath = 1, !.visited = {}, !.fetchedAny = FALSE]
    ELSE [l EXCEPT !.pc = "done"]

\* kore.ts:228-241,249  a page arrives: its items are pushed, the next link followed;
\* with no further page the candidate ends, by break or by the next candidate
LsPage(items, next) ==
    /\ ls.pc = "fetch"
    /\ MorePages(ls.nextPath, ls.visited)
    /\ LET got == WithSid(items)
           l1 == [ls EXCEPT !.visited = @ \cup {ls.nextPath},
                            !.sims = @ \o got,
                            !.fetchedAny = @ \/ got # <<>>,
                            !.nextPath = next]
           l2 == IF MorePages(l1.nextPath, l1.visited) THEN l1
                 ELSE IF BreakAfter(l1.fetchedAny) THEN [l1 EXCEPT !.pc = "done"]
                 ELSE NextCandidate(l1)
       IN /\ ls' = l2
          /\ lsBase' = IF l2.cand # ls.cand THEN Len(l2.sims) ELSE lsBase
          /\ lsLeft' = IF l2.cand # ls.cand
                       THEN lsLeft \cup {[status |-> HttpOk, yielded |-> l1.fetchedAny]}
                       ELSE lsLeft
    /\ lsLast' = HttpOk
    /\ lsMaxReq' = ls.cand
    /\ UNCHANGED exceptList

\* kore.ts:242-248  koreFetch throws KoreHttpError (kore.ts:158 for the data endpoint,
\* kore.ts:101 for the token endpoint): next candidate on 404/400, re-thrown otherwise
LsHttpError(status) ==
    /\ ls.pc = "fetch"
    /\ MorePages(ls.nextPath, ls.visited)
    /\ LET l1 == [ls EXCEPT !.visited = @ \cup {ls.nextPath}]
           l2 == IF IsFallbackStatus(status) THEN NextCandidate(l1)
                 ELSE [l1 EXCEPT !.pc = "thrown"]
       IN /\ ls' = l2
          /\ lsBase' = IF l2.cand # ls.cand THEN Len(l2.sims) ELSE lsBase
          /\ lsLeft' = IF l2.cand # ls.cand
                       THEN lsLeft \cup {[status |-> status, yielded |-> ls.fetchedAny]}
                       ELSE lsLeft
    /\ lsLast' = status
    /\ lsMaxReq' = ls.cand
    /\ UNCHANGED exceptList

\* kore.ts:247  any other failure (transport after the retries, a body that is no
\* JSON) is re-thrown
LsOtherError ==
    /\ ls.pc = "fetch"
    /\ MorePages(ls.nextPath, ls.visited)
    /\ ls' = [ls EXCEPT !.visited = @ \cup {ls.nextPath}, !.pc = "thrown"]
    /\ lsLast' = OtherFailure
    /\ lsMaxReq' = ls.cand
    /\ UNCHANGED <<lsBase, lsLeft, exceptList>>

NextList ==
    \/ \E items \in ItemLists, next \in 0..MaxPages : LsPage(items, next)
    \/ \E status \in DataStatuses : LsHttpError(status)
    \/ LsOtherError

\* ------------------------------------------- command route: POST (dispatch)
MaxGroups == 2                  \* target groups of one request
DispatchLimit == 30
DispatchWindowMs == 60000
MaxTextLen == 160

\* lib/commands.ts: one command of each list stands for the list
READ_COMMANDS == {"info"}
WRITE_COMMANDS == {"reset"}
ALL_COMMANDS == READ_COMMANDS \cup WRITE_COMMANDS \cup {"custom"}

\* commands.ts:91-93
isWriteCommand(command) == command \in WRITE_COMMANDS
\* commands.ts:99-101
isSupportedCommand(command) == command \in ALL_COMMANDS

\* The text field of the body: absent, or a string (given by its length and what it
\* trims to).
NoText == [len |-> Absent, trimmed |-> ""]
BlankText == [len |-> 2, trimmed |-> ""]
InfoText == [len |-> 7, trimmed |-> "AT+INFO"]
ResetText == [len |-> 5, trimmed |-> "reset"]
LongText == [len |-> MaxTextLen + 1, trimmed |-> "long"]

\* The requests tried: command and text.
Requests ==
    { [command |-> "info", text |-> NoText], [command |-> "reset", text |-> NoText],
      [command |-> "custom", text |-> InfoText], [command |-> "custom", text |-> ResetText],
      [command |-> "bogus", text |-> NoText], [command |-> "custom", text |-> NoText],
      [command |-> "custom", text |-> BlankText], [command |-> "info", text |-> LongText] }

\* The stored rows. Account A3's clientSecretEncrypted does not decrypt.
Accounts == {"A1", "A2", "A3"}
UndecryptableAccounts == {"A3"}
DbSims ==
    << [id |-> "s1", iccid |-> "i1", uniqueName |-> "n1", accountId |-> "A1", fleetId |-> "F1"],
       [id |-> "s2", iccid |-> "i2", uniqueName |-> "n2", accountId |-> "A1", fleetId |-> "F2"],
       [id |-> "s3", iccid |-> "i3", uniqueName |-> "n3", accountId |-> "A2", fleetId |-> "F3"],
       [id |-> "s4", iccid |-> "i4", uniqueName |-> "n4", accountId |-> "A3", fleetId |-> "F4"] >>

\* The target groups tried (TargetSchema).
Targets ==
    { [accountId |-> "A1", simIds |-> {"s1", "s2"}, iccids |-> {}, uniqueNames |-> {}],
      [accountId |-> "A1", simIds |-> {}, iccids |-> {"i1"}, uniqueNames |-> {}],
      [accountId |-> "A1", simIds |-> {}, iccids |-> {}, uniqueNames |-> {}],
      [accountId |-> "A1", simIds |-> {}, iccids |-> {}, uniqueNames |-> {"nomatch"}],
      [accountId |-> "A1", simIds |-> {"s3"}, iccids |-> {}, uniqueNames |-> {}],
      [accountId |-> "A2", simIds |-> {}, iccids |-> {}, uniqueNames |-> {"n3"}],
      [accountId |-> "AX", simIds |-> {"s1"}, iccids |-> {}, uniqueNames |-> {}],
      [accountId |-> "A3", simIds |-> {"s4"}, iccids |-> {}, uniqueNames |-> {}] }

TargetLists == UNION { [1..n -> Targets] : n \in 1..MaxGroups }

\* The callers tried: the owner, and agents with these scopes (fleetId None is the
\* account-wide scope).
Scope(a, f, r, w) == [accountId |-> a, fleetId |-> f, canRead |-> r, canWrite |-> w]
ScopeSets ==
    { {},
      {Scope("A1", "F1", TRUE, FALSE)},
      {Scope("A1", None, TRUE, TRUE)},
      {Scope("A1", None, TRUE, FALSE), Scope("A1", "F1", TRUE, TRUE)},
      {Scope("A1", None, TRUE, TRUE), Scope("A1", "F1", TRUE, FALSE)} }
AuthContexts ==
    {[role |-> "owner", scopes |-> {}]} \cup {[role |-> "agent", scopes |-> ss] : ss \in ScopeSets}

\* auth/context.ts:26-28
isOwner(context) == context.role = "owner"

CallerKey == "command:u1"

\* part_000:20-29,36  BodySchema.safeParse, as far as the text field goes
BodyValid(body) == body.text.len = Absent \/ body.text.len <= MaxTextLen

CustomTextMissingNever(body) == FALSE
\* part_000:47-51  custom needs a text that is not blank
CustomTextMissing(body) ==
    body.command = "custom" /\ (body.text.len = Absent \/ body.text.trimmed = "")

\* part_000:184-185  commandToSend and payloadText are the same string
CommandToSend(body) == IF body.command = "custom" THEN body.text.trimmed ELSE body.command

ResolveAnyAccount(target) ==
    SelectSeq(DbSims, LAMBDA sim :
        \/ sim.id \in target.simIds
        \/ sim.iccid \in target.iccids
        \/ sim.uniqueName \in target.uniqueNames)
\* part_000:135-140  prisma.sim.findMany({ where: { accountId, OR: identifiers } })
Resolve(target) ==
    SelectSeq(DbSims, LAMBDA sim :
        /\ sim.accountId = target.accountId
        /\ \/ sim.id \in target.simIds
           \/ sim.iccid \in target.iccids
           \/ sim.uniqueName \in target.uniqueNames)

\* part_000:112-121  no identifier list of the target has an element
NoIdentifiers(target) ==
    target.simIds = {} /\ target.iccids = {} /\ target.uniqueNames = {}

FleetMatchAny(scope, sim) == TRUE
\* part_000:162  scope.fleetId === null || scope.fleetId === sim.fleetId
FleetMatch(scope, sim) == scope.fleetId = None \/ scope.fleetId = sim.fleetId

\* part_000:104-106,160-167  owner, or some scope of the account matching the fleet
\* with the permission the command needs
Allowed(context, accountId, sim, requiresWrite) ==
    \/ isOwner(context)
    \/ \E scope \in {sc \in context.scopes : sc.accountId = accountId} :
          /\ FleetMatch(scope, sim)
          /\ IF requiresWrite THEN scope.canWrite ELSE scope.canRead

\* lib/api.ts:5-12  handleApiError: an HttpError keeps its status and message, any
\* other error becomes 500 "Internal server error"
handleApiError(error) ==
    IF error.isHttpError
    THEN [status |-> error.status, error |-> error.message, results |-> FALSE]
    ELSE [status |-> 500, error |-> "Internal server error", results |-> FALSE]

\* rate-limit.ts:16  throw new Error("Rate limit exceeded")
RateLimitError == [isHttpError |-> FALSE, status |-> 0, message |-> "Rate limit exceeded"]
\* crypto.ts:17  throw new Error("Encrypted payload is malformed"), or decipher.final()
DecryptError == [isHttpError |-> FALSE, status |-> 0, message |-> "Encrypted payload is malformed"]

NoResponse == [status |-> 0, error |-> "", results |-> FALSE]
OkResponse == [status |-> HttpOk, error |-> "", results |-> TRUE]
Invalid(message) == [status |-> 422, error |-> message, results |-> FALSE]

Result(status, accountId, simId, message) ==
    [status |-> status, accountId |-> accountId, simId |-> simId, message |-> message]

RECURSIVE AdvanceGroups(_, _, _)
\* part_000:88-133,250  the loop over the target groups from group g on, up to the
\* next sim.findMany, the end of the list, or a decryptSecret that throws
AdvanceGroups(d, res, g) ==
    IF g > Len(d.groups)
    THEN [dp |-> [d EXCEPT !.pc = "done"], results |-> res, response |-> OkResponse]
    ELSE LET target == d.groups[g] IN
         IF target.accountId \notin Accounts
         THEN AdvanceGroups(d, Append(res, Result("error", target.accountId, "",
                                                  "Account not found")), g + 1)
         ELSE IF target.accountId \in UndecryptableAccounts
         THEN [dp |-> [d EXCEPT !.pc = "done", !.gi = g], results |-> res,
               response |-> handleApiError(DecryptError)]
         ELSE IF NoIdentifiers(target)
         THEN AdvanceGroups(d, Append(res, Result("error", target.accountId, "",
                                                  "No target identifiers supplied")), g + 1)
         ELSE [dp |-> [d EXCEPT !.pc = "resolve", !.gi = g], results |-> res,
               response |-> NoResponse]

RECURSIVE AdvanceSims(_, _, _)
\* part_000:159-180  the loop over the resolved sims from sim k on, up to the next
\* sendSmsCommand; after the last sim, the next group
AdvanceSims(d, res, k) ==
    IF k > Len(d.sims)
    THEN AdvanceGroups(d, res, d.gi + 1)
    ELSE LET sim == d.sims[k]
             accountId == d.groups[d.gi].accountId IN
         IF ~Allowed(d.context, accountId, sim, isWriteCommand(d.body.command))
         THEN AdvanceSims(d, Append(res, Result("forbidden", accountId, sim.id,
                                                "Write scope missing")), k + 1)
         ELSE [dp |-> [d EXCEPT !.pc = "send", !.si = k], results |-> res,
               response |-> NoResponse]

\* part_000:244-246  after a send, the throttle's sleep when one is configured
AfterSend(d, res) ==
    IF d.throttle # Absent
    THEN [dp |-> [d EXCEPT !.pc = "sleep"], results |-> res, response |-> NoResponse]
    ELSE AdvanceSims(d, res, d.si + 1)

IdleDispatch ==
    /\ dp = [pc |-> "idle", context |-> [role |-> "owner", scopes |-> {}],
             body |-> [command |-> "info", text |-> NoText], groups |-> <<>>,
             throttle |-> Absent, gated |-> FALSE, gi |-> 0, sims |-> <<>>, si |-> 0]
    /\ results = <<>>
    /\ response = NoResponse
    /\ sent = <<>>
    /\ logs = <<>>

\* A request arrives: any caller, command, text, target groups and throttle. The
\* caller's bucket is fresh, or used up in a window that is running or over.
InitDispatch ==
    /\ \E context \in AuthContexts, body \in Requests, groups \in TargetLists,
          throttle \in {Absent, 2} :
          dp = [pc |-> "start", context |-> context, body |-> body, groups |-> groups,
                throttle |-> throttle, gated |-> FALSE, gi |-> 0, sims |-> <<>>,
                si |-> 0]
    /\ results = <<>>
    /\ response = NoResponse
    /\ sent = <<>>
    /\ logs = <<>>

InitDispatchGate ==
    /\ now \in {0, DispatchWindowMs}
    /\ \E b \in {NoBucket, [tokens |-> 0, resetAt |-> DispatchWindowMs]} :
          store = [k \in Keys |-> IF k = CallerKey THEN b ELSE NoBucket]
    /\ rlLast = [key |-> None, ok |-> TRUE]
    /\ rlPrev = store
    /\ gStart = [k \in Keys |-> -1]
    /\ gCalls = [k \in Keys |-> 0]
    /\ rlLimit = DispatchLimit
    /\ rlWindow = DispatchWindowMs

\* part_000:33-51  the body does not parse, or names no usable command: 422
DpReject ==
    /\ dp.pc = "start"
    /\ \/ ~BodyValid(dp.body) /\ response' = Invalid("Invalid command payload")
       \/ BodyValid(dp.body) /\ ~isSupportedCommand(dp.body.command)
             /\ response' = Invalid("Unsupported command")
       \/ BodyValid(dp.body) /\ isSupportedCommand(dp.body.command)
             /\ CustomTextMissing(dp.body)
             /\ response' = Invalid("Custom command text is required")
    /\ dp' = [dp EXCEPT !.pc = "done"]
    /\ UNCHANGED <<results, sent, logs, exceptDisp>>

RequestValid(body) ==
    BodyValid(body) /\ isSupportedCommand(body.command) /\ ~CustomTextMissing(body)

\* part_000:55,251-252  enforceRateLimit throws: caught, handleApiError answers
DpRateLimited ==
    /\ dp.pc = "start"
    /\ RequestValid(dp.body)
    /\ LET r == EnforceRateLimit(store, CallerKey, DispatchLimit, DispatchWindowMs, now) IN
          /\ ~r.ok
          /\ store' = r.store
    /\ response' = handleApiError(RateLimitError)
    /\ dp' = [dp EXCEPT !.pc = "done"]
    /\ UNCHANGED <<results, sent, logs, now, rlLimit, rlWindow, rlLast, rlPrev, gStart,
                   gCalls, retryVars, tokVars, listVars, laterVars, thirdVars>>

\* part_000:55-71  the gate is passed; account.findMany is awaited
DpGate ==
    /\ dp.pc = "start"
    /\ RequestValid(dp.body)
    /\ LET r == EnforceRateLimit(store, CallerKey, DispatchLimit, DispatchWindowMs, now) IN
          /\ r.ok
          /\ store' = r.store
    /\ dp' = [dp EXCEPT !.pc = "accounts", !.gated = TRUE]
    /\ UNCHANGED <<results, response, sent, logs, now, rlLimit, rlWindow, rlLast, rlPrev,
                   gStart, gCalls, retryVars, tokVars, listVars, laterVars, thirdVars>>

Step(next) ==
    /\ dp' = next.dp
    /\ results' = next.results
    /\ response' = next.response

\* part_000:73-88  the accounts are read: the loop over the groups begins
DpAccounts ==
    /\ dp.pc = "accounts"
    /\ Step(AdvanceGroups(dp, results, 1))
    /\ UNCHANGED <<sent, logs, exceptDisp>>

\* part_000:135-159,189  the group's sims are read: none gives the group's error
\* entry; the first sim that may be sent to has sendSmsCommand called for it
DpResolve ==
    /\ dp.pc = "resolve"
    /\ LET target == dp.groups[dp.gi]
           sims == Resolve(target)
           next == IF sims = <<>>
                   THEN AdvanceGroups(dp, Append(results, Result("error", target.accountId,
                                          "", "No SIMs resolved for target")), dp.gi + 1)
                   ELSE AdvanceSims([dp EXCEPT !.sims = sims], results, 1)
       IN Step(next)
    /\ UNCHANGED <<sent, logs, exceptDisp>>

\* part_000:189-202  sendSmsCommand resolves: the provider took the command;
\* commandLog.create is awaited
DpSendOk ==
    /\ dp.pc = "send"
    /\ sent' = Append(sent, [accountId |-> dp.groups[dp.gi].accountId,
                             simId |-> dp.sims[dp.si].id,
                             command |-> CommandToSend(dp.body)])
    /\ dp' = [dp EXCEPT !.pc = "log"]
    /\ UNCHANGED <<results, response, logs, exceptDisp>>

\* part_000:228-246  sendSmsCommand rejects: an error entry, then the next sim
DpSendFail ==
    /\ dp.pc = "send"
    /\ Step(AfterSend(dp, Append(results, Result("error", dp.groups[dp.gi].accountId,
                                                  dp.sims[dp.si].id, "send failed"))))
    /\ UNCHANGED <<sent, logs, exceptDisp>>

\* part_000:204-227,244-246  the log row is written: a queued entry
DpLogOk ==
    /\ dp.pc = "log"
    /\ logs' = Append(logs, [accountId |-> dp.groups[dp.gi].accountId,
                             simId |-> dp.sims[dp.si].id,
                             command |-> CommandToSend(dp.body),
                             payload |-> CommandToSend(dp.body)])
    /\ Step(AfterSend(dp, Append(results, Result("queued", dp.groups[dp.gi].accountId,
                                                  dp.sims[dp.si].id, ""))))
    /\ UNCHANGED <<sent, exceptDisp>>

\* part_000:204,228-246  commandLog.create throws: the same catch, an error entry
DpLogFail ==
    /\ dp.pc = "log"
    /\ Step(AfterSend(dp, Append(results, Result("error", dp.groups[dp.gi].accountId,
                                                  dp.sims[dp.si].id, "log failed"))))
    /\ UNCHANGED <<sent, logs, exceptDisp>>

\* part_000:245  the throttle's sleep is over
DpWake ==
    /\ dp.pc = "sleep"
    /\ Step(AdvanceSims(dp, results, dp.si + 1))
    /\ UNCHANGED <<sent, logs, exceptDisp>>

NextDisp ==
    \/ DpReject
    \/ DpRateLimited
    \/ DpGate
    \/ DpAccounts
    \/ DpResolve
    \/ DpSendOk
    \/ DpSendFail
    \/ DpLogOk
    \/ DpLogFail
    \/ DpWake

\* ------------------------------------------- syncDevices (unnamed/part_001)
MaxRuns == 2                    \* syncDevices runs made one after the other
MaxDbFailures == 1              \* upserts that fail before the store answers again

SequentialRetries == 4          \* db-utils.ts:8
SimUpsertRetries == 5           \* part_001:139

\* The stored accounts and fleets, in the order findMany gives them.
DbAccounts == <<"A1", "A2", "A3">>
DbFleets ==
    << [id |-> "F1", accountId |-> "A1", externalRef |-> "x1"],
       [id |-> "F2", accountId |-> "A1", externalRef |-> "x2"],
       [id |-> "F3", accountId |-> "A2", externalRef |-> "x3"],
       [id |-> "F4", accountId |-> "A3", externalRef |-> "x4"] >>
FleetIds == {DbFleets[i].id : i \in 1..Len(DbFleets)}

\* What one listing candidate answers: the items of the pages it delivered and how
\* it ended (HttpOk when the pages ended, else the status of the failed request).
Ans(items, status) == [items |-> items, status |-> status]
\* A fleet the provider no longer has: every candidate answers 404.
Gone == [i \in 1..NumCandidates |-> Ans(<<>>, 404)]
Failing == [i \in 1..NumCandidates |-> Ans(<<>>, 500)]
Direct(items) ==
    [i \in 1..NumCandidates |-> IF i = 1 THEN Ans(items, HttpOk) ELSE Ans(<<>>, 404)]
Fifth(items) ==
    [i \in 1..NumCandidates |-> IF i = 5 THEN Ans(items, HttpOk) ELSE Ans(<<>>, 404)]
Partial ==
    [i \in 1..NumCandidates |->
        IF i = 1 THEN Ans(<<"d1">>, 400) ELSE Ans(<<"d1", "d2">>, HttpOk)]

\* The answers of the token endpoint: 2xx, a non-2xx status, or no answer at all.
TokenAnswers == {HttpOk, 404, 401, OtherFailure}

Remotes ==
    { [tok |-> [a \in Accounts |-> IF a = "A1" THEN t ELSE HttpOk],
       fleets |-> [f \in FleetIds |->
                      CASE f = "F1" -> f1 [] f = "F2" -> f2 [] f = "F3" -> f3
                        [] OTHER -> Gone]] :
        t \in TokenAnswers,
        f1 \in {Direct(<<"d1", "", "d2">>), Gone, Fifth(<<"d1">>), Failing, Partial},
        f2 \in {Direct(<<"d2", "d3">>), Gone},
        f3 \in {Direct(<<"d4">>), Failing} }

RECURSIVE ListSims(_, _, _, _)
\* kore.ts:211-252  listSimsFromKore against a provider that answers candidate i with
\* cands[i]; the token endpoint's answer tok is met first by every request
\* (kore.ts:141), a non-2xx one as a KoreHttpError of that status (kore.ts:98-101)
ListSims(tok, cands, i, sims) ==
    IF i > NumCandidates THEN [thrown |-> FALSE, status |-> HttpOk, sims |-> sims]
    ELSE LET a == IF tok = HttpOk THEN cands[i] ELSE Ans(<<>>, tok)
             got == WithSid(a.items)
         IN  IF a.status = HttpOk
             THEN IF BreakAfter(got # <<>>)
                  THEN [thrown |-> FALSE, status |-> HttpOk, sims |-> sims \o got]
                  ELSE ListSims(tok, cands, i + 1, sims \o got)
             ELSE IF IsFallbackStatus(a.status)
                  THEN ListSims(tok, cands, i + 1, sims \o got)
                  ELSE [thrown |-> TRUE, status |-> a.status, sims |-> <<>>]

\* err.message of what listSimsFromKore throws
ListErrorMessage(status) ==
    IF status = OtherFailure THEN "fetch failed" ELSE "KORE API request failed"

\* kore.ts:174-191  normalizeSim of the item with this sid
Iccids == ("d1" :> "i1") @@ ("d2" :> "i2") @@ ("d3" :> "i3") @@ ("d4" :> "i4")
normalizeSim(sid) == [sid |-> sid, iccid |-> Iccids[sid], status |-> "active"]

\* The Sim rows before the first run.
SimRow(row, sid, accountId, fleetId, iccid, status) ==
    [row |-> row, simSid |-> sid, accountId |-> accountId, fleetId |-> fleetId,
     iccid |-> iccid, status |-> status]
SimTables ==
    { {},
      {SimRow(1, "d1", "A2", "F3", "i0", "stale"), SimRow(2, "d9", "A1", "F1", "i9", "active")} }

RowExistsNever(table, sid) == FALSE
\* part_001:119  where: { simSid: sim.sid }
RowExists(table, sid) == \E r \in table : r.simSid = sid

UpsertSimKeepsAccount(table, sim, accountId, fleetId) ==
    IF RowExists(table, sim.sid)
    THEN { IF r.simSid = sim.sid
           THEN SimRow(r.row, r.simSid, r.accountId, fleetId, sim.iccid, sim.status)
           ELSE r : r \in table }
    ELSE table \cup {SimRow(Cardinality(table) + 1, sim.sid, accountId, fleetId,
                            sim.iccid, sim.status)}
\* part_001:118-137  prisma.sim.upsert
UpsertSim(table, sim, accountId, fleetId) ==
    IF RowExists(table, sim.sid)
    THEN { IF r.simSid = sim.sid
           THEN SimRow(r.row, r.simSid, accountId, fleetId, sim.iccid, sim.status)
           ELSE r : r \in table }
    ELSE table \cup {SimRow(Cardinality(table) + 1, sim.sid, accountId, fleetId,
                            sim.iccid, sim.status)}

\* The callers and bodies tried.
SyContexts ==
    { [role |-> "owner", scopes |-> {}],
      [role |-> "agent", scopes |-> {Scope("A1", "F1", TRUE, FALSE)}],
      [role |-> "agent", scopes |-> {Scope("A2", None, FALSE, TRUE)}] }
SyBodies ==
    { [accountIds |-> a, fleetIds |-> f] :
        a \in {{}, {"A1", "A2"}, {"A2"}}, f \in {{}, {"F1", "F3"}} }

Entry(accountId, fleetId, synced, error) ==
    [accountId |-> accountId, fleetId |-> fleetId, synced |-> synced, error |-> error]

Forbidden(message) == [status |-> 403, error |-> message, results |-> FALSE]

\* part_001:34-54  the account ids synced, or the 403 answered instead
ReadableAccountIds(context) == {sc.accountId : sc \in {x \in context.scopes : x.canRead}}
SyAccountIds(context, body) ==
    IF isOwner(context)
    THEN IF body.accountIds # {} THEN body.accountIds ELSE Accounts
    ELSE IF body.accountIds # {}
         THEN body.accountIds \cap ReadableAccountIds(context)
         ELSE ReadableAccountIds(context)
SyRefusal(context, body) ==
    IF isOwner(context) THEN NoResponse
    ELSE IF ReadableAccountIds(context) = {} THEN Forbidden("No access granted")
    ELSE IF SyAccountIds(context, body) = {} THEN Forbidden("No permitted accounts in request")
    ELSE NoResponse

RECURSIVE SelectAccounts(_, _)
\* part_001:64-69  prisma.account.findMany({ where: { id: { in: accountIds } } })
SelectAccounts(seq, ids) ==
    IF seq = <<>> THEN <<>>
    ELSE IF Head(seq) \in ids THEN <<Head(seq)>> \o SelectAccounts(Tail(seq), ids)
    ELSE SelectAccounts(Tail(seq), ids)

RECURSIVE TargetFleetsOf(_, _, _, _)
\* part_001:76-87  the account's fleets that pass the fleet filter and the caller's
\* readable scopes
TargetFleetsOf(fleets, context, body, accountId) ==
    IF fleets = <<>> THEN <<>>
    ELSE LET fleet == Head(fleets)
             rest == TargetFleetsOf(Tail(fleets), context, body, accountId)
             keep ==
                /\ fleet.accountId = accountId
                /\ ~(body.fleetIds # {} /\ fleet.id \notin body.fleetIds)
                /\ \/ isOwner(context)
                   \/ \E scope \in context.scopes :
                         /\ scope.accountId = accountId /\ scope.canRead
                         /\ (scope.fleetId = None \/ scope.fleetId = fleet.id)
         IN  IF keep THEN <<fleet.id>> \o rest ELSE rest
TargetFleets(context, body, accountId) == TargetFleetsOf(DbFleets, context, body, accountId)

NoSnapshot == [taken |-> FALSE, table |-> {}, summary |-> <<>>]

IdleSync ==
    /\ simTable = {}
    /\ remote = [tok |-> [a \in Accounts |-> HttpOk], fleets |-> [f \in FleetIds |-> Gone]]
    /\ sy = [pc |-> "idle", run |-> 0, context |-> [role |-> "owner", scopes |-> {}],
             body |-> [accountIds |-> {}, fleetIds |-> {}], accounts |-> <<>>, ai |-> 0,
             fleets |-> <<>>, fi |-> 0, fAttempt |-> 0, sims |-> <<>>, si |-> 0,
             sAttempt |-> 0, failLeft |-> 0]
    /\ summary = <<>>
    /\ syResponse = NoResponse
    /\ syWarned = {}
    /\ syFirst = NoSnapshot

InitSync ==
    /\ simTable \in SimTables
    /\ remote \in Remotes
    /\ \E context \in SyContexts, body \in SyBodies, k \in {0, MaxDbFailures} :
          sy = [pc |-> "start", run |-> 1, context |-> context, body |-> body,
                accounts |-> <<>>, ai |-> 0, fleets |-> <<>>, fi |-> 0, fAttempt |-> 0,
                sims |-> <<>>, si |-> 0, sAttempt |-> 0, failLeft |-> k]
    /\ summary = <<>>
    /\ syResponse = NoResponse
    /\ syWarned = {}
    /\ syFirst = NoSnapshot

\* part_001:17-69  the request is read, the account ids are settled (or 403 answered)
\* and the accounts are loaded
SyBegin ==
    /\ sy.pc = "start"
    /\ IF SyRefusal(sy.context, sy.body) # NoResponse
       THEN /\ syResponse' = SyRefusal(sy.context, sy.body)
            /\ sy' = [sy EXCEPT !.pc = "done"]
       ELSE /\ sy' = [sy EXCEPT !.pc = "account", !.ai = 1,
                         !.accounts = SelectAccounts(DbAccounts, SyAccountIds(sy.context, sy.body))]
            /\ UNCHANGED syResponse
    /\ UNCHANGED <<simTable, remote, summary, syWarned, syFirst, exceptSync>>

\* part_001:73-87,144-147  the handler of the next account up to its fleets' loop: a
\* secret that does not decrypt is caught as the account's error entry
SyAccount ==
    /\ sy.pc = "account"
    /\ sy.ai <= Len(sy.accounts)
    /\ LET account == sy.accounts[sy.ai]
       IN  IF account \in UndecryptableAccounts
           THEN /\ summary' = Append(summary, Entry(account, None, Absent, DecryptError.message))
                /\ sy' = [sy EXCEPT !.ai = sy.ai + 1]
           ELSE /\ sy' = [sy EXCEPT !.pc = "fleet", !.fi = 1, !.fAttempt = 0,
                             !.fleets = TargetFleets(sy.context, sy.body, account)]
                /\ UNCHANGED summary
    /\ UNCHANGED <<simTable, remote, syResponse, syWarned, syFirst, exceptSync>>

\* part_001:150  return jsonResponse({ ok: true, summary })
SyFinish ==
    /\ sy.pc = "account"
    /\ sy.ai > Len(sy.accounts)
    /\ sy' = [sy EXCEPT !.pc = "done"]
    /\ syResponse' = OkResponse
    /\ UNCHANGED <<simTable, remote, summary, syWarned, syFirst, exceptSync>>

SyFleetsDoneEarly ==
    /\ sy.pc = "fleet"
    /\ sy' = [sy EXCEPT !.pc = "account", !.ai = sy.ai + 1]
    /\ UNCHANGED <<simTable, remote, summary, syResponse, syWarned, syFirst, exceptSync>>

\* db-utils.ts:10-13  the fleets of the account are through: its handler returns
SyFleetsDone ==
    /\ sy.pc = "fleet"
    /\ sy.fi > Len(sy.fleets)
    /\ sy' = [sy EXCEPT !.pc = "account", !.ai = sy.ai + 1]
    /\ UNCHANGED <<simTable, remote, summary, syResponse, syWarned, syFirst, exceptSync>>

\* The listing made for the fleet at hand.
SyListing ==
    LET account == sy.accounts[sy.ai]
    IN  ListSims(remote.tok[account], remote.fleets[sy.fleets[sy.fi]], 1, <<>>)

\* retry.ts:12-18 under db-utils.ts:12  the fleet's handler threw: it is invoked again,
\* or, the retries exhausted, the throw reaches the account's catch (part_001:144-147)
FleetHandlerThrew(d, message) ==
    IF RetryExhausted(d.fAttempt + 1, SequentialRetries)
    THEN /\ summary' = Append(summary, Entry(d.accounts[d.ai], None, Absent, message))
         /\ sy' = [d EXCEPT !.pc = "account", !.ai = d.ai + 1, !.fAttempt = 0,
                           !.sims = <<>>, !.si = 0, !.sAttempt = 0]
    ELSE /\ sy' = [d EXCEPT !.pc = "fleet", !.fAttempt = d.fAttempt + 1,
                           !.sims = <<>>, !.si = 0, !.sAttempt = 0]
         /\ UNCHANGED summary

\* part_001:89-101  listSimsFromKore returned the fleet's devices
SyListOk ==
    /\ sy.pc = "fleet"
    /\ sy.fi <= Len(sy.fleets)
    /\ ~SyListing.thrown
    /\ sy' = [sy EXCEPT !.pc = "upsert", !.sims = SyListing.sims, !.si = 1, !.sAttempt = 0]
    /\ UNCHANGED <<simTable, remote, summary, syResponse, syWarned, syFirst, exceptSync>>

\* part_001:102-113  listSimsFromKore threw: a KoreHttpError 404 is logged and the
\* fleet skipped, anything else is thrown on
SyListThrew ==
    /\ sy.pc = "fleet"
    /\ sy.fi <= Len(sy.fleets)
    /\ SyListing.thrown
    /\ IF SyListing.status = 404
       THEN /\ syWarned' = syWarned \cup {sy.fleets[sy.fi]}
            /\ sy' = [sy EXCEPT !.fi = sy.fi + 1, !.fAttempt = 0]
            /\ UNCHANGED summary
       ELSE /\ FleetHandlerThrew(sy, ListErrorMessage(SyListing.status))
            /\ UNCHANGED syWarned
    /\ UNCHANGED <<simTable, remote, syResponse, syFirst, exceptSync>>

\* part_001:115-140  the upsert of the next device succeeds
SyUpsertOk ==
    /\ sy.pc = "upsert"
    /\ sy.si <= Len(sy.sims)
    /\ simTable' = UpsertSim(simTable, normalizeSim(sy.sims[sy.si]),
                             sy.accounts[sy.ai], sy.fleets[sy.fi])
    /\ sy' = [sy EXCEPT !.si = sy.si + 1, !.sAttempt = 0]
    /\ UNCHANGED <<remote, summary, syResponse, syWarned, syFirst, exceptSync>>

\* part_001:115-140  the upsert of the next device fails: withRetry makes it again,
\* or, the retries exhausted, the fleet's handler throws
SyUpsertFail ==
    /\ sy.pc = "upsert"
    /\ sy.si <= Len(sy.sims)
    /\ sy.failLeft > 0
    /\ IF RetryExhausted(sy.sAttempt + 1, SimUpsertRetries)
       THEN FleetHandlerThrew([sy EXCEPT !.failLeft = sy.failLeft - 1], "upsert failed")
       ELSE /\ sy' = [sy EXCEPT !.sAttempt = sy.sAttempt + 1, !.failLeft = sy.failLeft - 1]
            /\ UNCHANGED summary
    /\ UNCHANGED <<simTable, remote, syResponse, syWarned, syFirst, exceptSync>>

\* part_001:142  summary.push({ accountId, fleetId, synced: sims.length })
SyFleetDone ==
    /\ sy.pc = "upsert"
    /\ sy.si > Len(sy.sims)
    /\ summary' = Append(summary, Entry(sy.accounts[sy.ai], sy.fleets[sy.fi], Len(sy.sims), ""))
    /\ sy' = [sy EXCEPT !.pc = "fleet", !.fi = sy.fi + 1, !.fAttempt = 0,
                        !.sims = <<>>, !.si = 0]
    /\ UNCHANGED <<simTable, remote, syResponse, syWarned, syFirst, exceptSync>>

\* part_001:17  the same request is made again, against the same provider data
SyAgain ==
    /\ sy.pc = "done"
    /\ syResponse = OkResponse
    /\ sy.run < MaxRuns
    /\ syFirst' = IF syFirst.taken THEN syFirst
                  ELSE [taken |-> TRUE, table |-> simTable, summary |-> summary]
    /\ sy' = [sy EXCEPT !.pc = "start", !.run = sy.run + 1, !.accounts = <<>>, !.ai = 0,
                        !.fleets = <<>>, !.fi = 0]
    /\ summary' = <<>>
    /\ syResponse' = NoResponse
    /\ UNCHANGED <<simTable, remote, syWarned, exceptSync>>

NextSync ==
    \/ SyBegin
    \/ SyAccount
    \/ SyFinish
    \/ SyFleetsDone
    \/ SyListOk
    \/ SyListThrew
    \/ SyUpsertOk
    \/ SyUpsertFail
    \/ SyFleetDone
    \/ SyAgain

\* -------------------------------------------- syncFleets (unnamed/part_002)
NullFleet == 0                  \* fleetId: null of a UserScope row
OwnerId == "u1"

\* What listFleetsFromKore meets for an account: the sids of the fleets listed, or
\* the failure (a status of the token or data endpoint, or no answer).
FleetList(items) == [status |-> HttpOk, items |-> items]
FleetFailure(status) == [status |-> status, items |-> <<>>]
FleetRemotes ==
    { [a \in Accounts |-> IF a = "A1" THEN r1 ELSE IF a = "A2" THEN r2 ELSE FleetList(<<>>)] :
        r1 \in {FleetList(<<"x1", "", "x5">>), FleetFailure(401), FleetFailure(OtherFailure)},
        r2 \in {FleetList(<<"x3">>), FleetList(<<>>), FleetFailure(500)} }

\* kore.ts:163-172  normalizeFleet of the item with this sid
FriendlyNames == ("x1" :> "n1") @@ ("x3" :> "n3") @@ ("x5" :> "n5")
normalizeFleet(sid) == [sid |-> sid, friendlyName |-> FriendlyNames[sid]]

\* kore.ts:193-209  listFleetsFromKore: the fleets with a sid, or the failure thrown
ListFleets(r) == [thrown |-> r.status # HttpOk, fleets |-> WithSid(r.items)]

\* The Fleet rows before the run.
FleetRow(id, accountId, externalRef, name) ==
    [id |-> id, accountId |-> accountId, externalRef |-> externalRef, name |-> name]
FleetTables ==
    { {}, {FleetRow(1, "A1", "x1", "old"), FleetRow(2, "A2", "x1", "n1")} }

FleetRowExistsNever(table, accountId, externalRef) == FALSE
\* part_002:79  where: { accountId_externalRef }
FleetRowExists(table, accountId, externalRef) ==
    \E r \in table : r.accountId = accountId /\ r.externalRef = externalRef

\* part_002:78-82  prisma.fleet.upsert
UpsertFleet(table, accountId, fleet) ==
    IF FleetRowExists(table, accountId, fleet.sid)
    THEN { IF r.accountId = accountId /\ r.externalRef = fleet.sid
           THEN FleetRow(r.id, accountId, r.externalRef, fleet.friendlyName)
           ELSE r : r \in table }
    ELSE table \cup {FleetRow(Cardinality(table) + 1, accountId, fleet.sid, fleet.friendlyName)}
\* upserted.id
UpsertedId(table, accountId, fleet) ==
    (CHOOSE r \in UpsertFleet(table, accountId, fleet) :
        r.accountId = accountId /\ r.externalRef = fleet.sid).id

\* The UserScope rows.
ScopeRow(userId, accountId, fleetId, r, w, i) ==
    [userId |-> userId, accountId |-> accountId, fleetId |-> fleetId,
     canRead |-> r, canWrite |-> w, canInvite |-> i]
FullScope(userId, accountId, fleetId) == ScopeRow(userId, accountId, fleetId, TRUE, TRUE, TRUE)

\* part_002:85-102  prisma.userScope.upsert on the key (userId, accountId, fleetId)
UpsertFullScope(table, userId, accountId, fleetId) ==
    {r \in table : ~(r.userId = userId /\ r.accountId = accountId /\ r.fleetId = fleetId)}
        \cup {FullScope(userId, accountId, fleetId)}

\* The callers and bodies tried.
SfContexts ==
    { [role |-> "owner", scopes |-> {}],
      [role |-> "agent", scopes |-> {Scope("A1", None, TRUE, TRUE)}],
      [role |-> "agent", scopes |-> {Scope("A2", "F3", TRUE, TRUE), Scope("A1", None, TRUE, FALSE)}],
      [role |-> "agent", scopes |-> {Scope("A1", "F1", TRUE, FALSE)}] }
SfBodies == { [accountIds |-> a] : a \in {{}, {"A1", "A2"}, {"A2", "AX"}} }

\* part_002:42-44  the accounts of the caller's scopes that carry canWrite
WritableAccountIdsAny(context) == {sc.accountId : sc \in context.scopes}
WritableAccountIds(context) == {sc.accountId : sc \in {x \in context.scopes : x.canWrite}}

\* part_002:33-51  targetAccountIds
SfTargetAccountIds(context, body) ==
    IF isOwner(context)
    THEN IF body.accountIds # {} THEN body.accountIds ELSE Accounts
    ELSE IF body.accountIds # {}
         THEN body.accountIds \cap WritableAccountIds(context)
         ELSE WritableAccountIds(context)

FleetResult(accountId, fleets, error) ==
    [accountId |-> accountId, fleets |-> fleets, error |-> error]

IdleFleets ==
    /\ fleetTable = {}
    /\ sfRemote = [a \in Accounts |-> FleetList(<<>>)]
    /\ sf = [pc |-> "idle", context |-> [role |-> "owner", scopes |-> {}],
             body |-> [accountIds |-> {}], accounts |-> <<>>, ai |-> 0,
             fleets |-> <<>>, fi |-> 0, fleets0 |-> {}]
    /\ sfResults = <<>>
    /\ sfResponse = NoResponse
    /\ sfContacted = {}

IdleUserScopes == userScopes = {}

InitFleets ==
    /\ fleetTable \in FleetTables
    /\ sfRemote \in FleetRemotes
    /\ userScopes \in {{}, {ScopeRow(OwnerId, "A1", 1, TRUE, FALSE, FALSE)}}
    /\ \E context \in SfContexts, body \in SfBodies :
          sf = [pc |-> "start", context |-> context, body |-> body, accounts |-> <<>>,
                ai |-> 0, fleets |-> <<>>, fi |-> 0, fleets0 |-> fleetTable]
    /\ sfResults = <<>>
    /\ sfResponse = NoResponse
    /\ sfContacted = {}

\* part_002:15-62  the request is read, the target accounts are settled (or 403
\* answered) and loaded
SfBegin ==
    /\ sf.pc = "start"
    /\ IF ~isOwner(sf.context) /\ WritableAccountIds(sf.context) = {}
       THEN /\ sfResponse' = Forbidden("Write scope required to sync fleets")
            /\ sf' = [sf EXCEPT !.pc = "done"]
       ELSE /\ sf' = [sf EXCEPT !.pc = "account", !.ai = 1,
                         !.accounts = SelectAccounts(DbAccounts,
                                          SfTargetAccountIds(sf.context, sf.body))]
            /\ UNCHANGED sfResponse
    /\ UNCHANGED <<fleetTable, sfRemote, sfResults, sfContacted, userScopes, exceptFleets>>

AccountFailedAborts(d, res, message) ==
    /\ sfResponse' = handleApiError([isHttpError |-> FALSE, status |-> 0, message |-> message])
    /\ sf' = [d EXCEPT !.pc = "done"]
    /\ sfResults' = res
\* part_002:106-109  the catch of the account's handler: an error entry, and the
\* handler returns
AccountFailed(d, res, message) ==
    /\ sfResults' = Append(res, FleetResult(d.accounts[d.ai], 0, message))
    /\ sf' = [d EXCEPT !.pc = "account", !.ai = d.ai + 1, !.fleets = <<>>, !.fi = 0]
    /\ UNCHANGED sfResponse

\* part_002:66-75  the handler of the next account: the secret is decrypted and the
\* provider asked for the fleets
SfAccount ==
    /\ sf.pc = "account"
    /\ sf.ai <= Len(sf.accounts)
    /\ LET account == sf.accounts[sf.ai]
           listed == ListFleets(sfRemote[account])
       IN  IF account \in UndecryptableAccounts
           THEN /\ AccountFailed(sf, sfResults, DecryptError.message)
                /\ UNCHANGED sfContacted
           ELSE /\ sfContacted' = sfContacted \cup {account}
                /\ IF listed.thrown
                   THEN AccountFailed(sf, sfResults, ListErrorMessage(sfRemote[account].status))
                   ELSE /\ sf' = [sf EXCEPT !.pc = "upsert", !.fleets = listed.fleets, !.fi = 1]
                        /\ UNCHANGED <<sfResults, sfResponse>>
    /\ UNCHANGED <<fleetTable, sfRemote, userScopes, exceptFleets>>

\* part_002:77-104  the next fleet is upserted, and for the owner the scope on it
SfUpsertOk ==
    /\ sf.pc = "upsert"
    /\ sf.fi <= Len(sf.fleets)
    /\ LET account == sf.accounts[sf.ai]
           fleet == normalizeFleet(sf.fleets[sf.fi])
       IN  /\ fleetTable' = UpsertFleet(fleetTable, account, fleet)
           /\ userScopes' =
                 IF isOwner(sf.context)
                 THEN UpsertFullScope(userScopes, OwnerId, account,
                                      UpsertedId(fleetTable, account, fleet))
                 ELSE userScopes
    /\ sf' = [sf EXCEPT !.fi = sf.fi + 1]
    /\ UNCHANGED <<sfRemote, sfResults, sfResponse, sfContacted, exceptFleets>>

\* part_002:78-109  an upsert throws
SfUpsertFail ==
    /\ sf.pc = "upsert"
    /\ sf.fi <= Len(sf.fleets)
    /\ AccountFailed(sf, sfResults, "upsert failed")
    /\ UNCHANGED <<fleetTable, sfRemote, sfContacted, userScopes, exceptFleets>>

\* part_002:105  results.push({ accountId, fleets: fleets.length })
SfAccountDone ==
    /\ sf.pc = "upsert"
    /\ sf.fi > Len(sf.fleets)
    /\ sfResults' = Append(sfResults, FleetResult(sf.accounts[sf.ai], Len(sf.fleets), ""))
    /\ sf' = [sf EXCEPT !.pc = "account", !.ai = sf.ai + 1, !.fleets = <<>>, !.fi = 0]
    /\ UNCHANGED <<fleetTable, sfRemote, sfResponse, sfContacted, userScopes, exceptFleets>>

\* part_002:112  return jsonResponse({ ok: true, results })
SfFinish ==
    /\ sf.pc = "account"
    /\ sf.ai > Len(sf.accounts)
    /\ sf' = [sf EXCEPT !.pc = "done"]
    /\ sfResponse' = OkResponse
    /\ UNCHANGED <<fleetTable, sfRemote, sfResults, sfContacted, userScopes, exceptFleets>>

NextFleets ==
    \/ SfBegin
    \/ SfAccount
    \/ SfUpsertOk
    \/ SfUpsertFail
    \/ SfAccountDone
    \/ SfFinish

\* ------------------------- syncAccountsFromConfig (api/accounts/sync/route.ts)
MaxCalls == 2                   \* calls of syncAccountsFromConfig, one after the other

\* env.ts:61-90  getKoreAccounts(): the configured credentials
Config(clientId, label, secret) == [clientId |-> clientId, label |-> label, clientSecret |-> secret]
EnvAccountLists ==
    { <<Config("k1", "Parent", "s1")>>,
      <<Config("k1", "Parent", "s1"), Config("k2", "Child", "s2")>>,
      <<Config("k2", "Child", "s2"), Config("k2", "Renamed", "s3")>> }

\* crypto.ts:6-12  encryptSecret: the stored form of a secret
encryptSecret(value) == [encrypted |-> value]

\* The Account rows before the call.
AccountRow(id, clientId, label, secret) ==
    [id |-> id, clientId |-> clientId, label |-> label, clientSecretEncrypted |-> secret]
AccountTables ==
    { {}, {AccountRow(1, "k9", "Other", encryptSecret("s9")),
           AccountRow(2, "k1", "Old", encryptSecret("s0"))} }

\* The UserScope rows before the call; account ids are those of AccountTables.
AgentId == "u2"
ScopeTables ==
    { {}, {ScopeRow(OwnerId, 2, NullFleet, TRUE, FALSE, FALSE),
           ScopeRow(OwnerId, 2, 7, TRUE, FALSE, FALSE),
           ScopeRow(AgentId, 2, NullFleet, TRUE, FALSE, FALSE)} }

AccountRowExistsNever(table, clientId) == FALSE
\* route.ts:21  where: { clientId }
AccountRowExists(table, clientId) == \E r \in table : r.clientId = clientId

\* route.ts:20-36  prisma.account.upsert
UpsertAccount(table, config) ==
    IF AccountRowExists(table, config.clientId)
    THEN { IF r.clientId = config.clientId
           THEN AccountRow(r.id, r.clientId, config.label, encryptSecret(config.clientSecret))
           ELSE r : r \in table }
    ELSE table \cup {AccountRow(Cardinality(table) + 1, config.clientId, config.label,
                                encryptSecret(config.clientSecret))}
\* account.id
UpsertedAccountId(table, config) ==
    (CHOOSE r \in UpsertAccount(table, config) : r.clientId = config.clientId).id

\* route.ts:40-59  findFirst of the owner's account-wide scope, then update or create
IsAccountWide(r, userId, accountId) ==
    r.userId = userId /\ r.accountId = accountId /\ r.fleetId = NullFleet
GrantAccountWide(table, userId, accountId) ==
    IF \E r \in table : IsAccountWide(r, userId, accountId)
    THEN LET existing == CHOOSE r \in table : IsAccountWide(r, userId, accountId)
         IN  (table \ {existing}) \cup {FullScope(userId, accountId, NullFleet)}
    ELSE table \cup {FullScope(userId, accountId, NullFleet)}

AcContexts ==
    { [role |-> "owner", userId |-> OwnerId], [role |-> "agent", userId |-> AgentId] }

IdleAccounts ==
    /\ acctTable = {}
    /\ ac = [pc |-> "idle", context |-> [role |-> "owner", userId |-> OwnerId],
             env |-> <<>>, i |-> 0, accountId |-> 0, accounts0 |-> {}, scopes0 |-> {},
             calls |-> 0]
    /\ acResponse = NoResponse

InitAccounts ==
    /\ acctTable \in AccountTables
    /\ userScopes \in ScopeTables
    /\ \A r \in userScopes : \E a \in acctTable : a.id = r.accountId
    /\ \E context \in AcContexts, env \in EnvAccountLists :
          ac = [pc |-> "start", context |-> context, env |-> env, i |-> 0, accountId |-> 0,
                accounts0 |-> acctTable, scopes0 |-> userScopes, calls |-> 1]
    /\ acResponse = NoResponse

\* route.ts:10-16  only the owner passes
AcBegin ==
    /\ ac.pc = "start"
    /\ IF ~isOwner(ac.context)
       THEN /\ acResponse' = Forbidden("Only the owner can sync accounts")
            /\ ac' = [ac EXCEPT !.pc = "done"]
       ELSE /\ ac' = [ac EXCEPT !.pc = "account", !.i = 1]
            /\ UNCHANGED acResponse
    /\ UNCHANGED <<acctTable, userScopes, exceptAccounts>>

\* route.ts:18-38  the next configured account is upserted
AcUpsert ==
    /\ ac.pc = "account"
    /\ ac.i <= Len(ac.env)
    /\ acctTable' = UpsertAccount(acctTable, ac.env[ac.i])
    /\ ac' = [ac EXCEPT !.pc = "scope", !.accountId = UpsertedAccountId(acctTable, ac.env[ac.i])]
    /\ UNCHANGED <<acResponse, userScopes, exceptAccounts>>

\* route.ts:40-59  the owner is granted the account-wide scope
AcGrant ==
    /\ ac.pc = "scope"
    /\ userScopes' = GrantAccountWide(userScopes, ac.context.userId, ac.accountId)
    /\ ac' = [ac EXCEPT !.pc = "account", !.i = ac.i + 1]
    /\ UNCHANGED <<acResponse, acctTable, exceptAccounts>>

\* route.ts:63-65  a database call throws: handleApiError answers
AcDbError ==
    /\ ac.pc \in {"account", "scope"}
    /\ ac.pc = "account" => ac.i <= Len(ac.env)
    /\ acResponse' = handleApiError([isHttpError |-> FALSE, status |-> 0, message |-> "db"])
    /\ ac' = [ac EXCEPT !.pc = "done"]
    /\ UNCHANGED <<acctTable, userScopes, exceptAccounts>>

\* route.ts:62  return jsonResponse({ ok: true, accounts: synced })
AcFinish ==
    /\ ac.pc = "account"
    /\ ac.i > Len(ac.env)
    /\ acResponse' = OkResponse
    /\ ac' = [ac EXCEPT !.pc = "done"]
    /\ UNCHANGED <<acctTable, userScopes, exceptAccounts>>

\* route.ts:8  the next call, by the owner or by an agent
AcAgain ==
    /\ ac.pc = "done"
    /\ ac.calls < MaxCalls
    /\ \E context \in AcContexts :
          ac' = [ac EXCEPT !.pc = "start", !.context = context, !.i = 0, !.accountId = 0,
                           !.accounts0 = acctTable, !.scopes0 = userScopes,
                           !.calls = ac.calls + 1]
    /\ acResponse' = NoResponse
    /\ UNCHANGED <<acctTable, userScopes, exceptAccounts>>

NextAccounts ==
    \/ AcAgain
    \/ AcBegin
    \/ AcUpsert
    \/ AcGrant
    \/ AcDbError
    \/ AcFinish

\* ------------------------------------------------ scope helpers (auth/scopes.ts)
MaxScopes == 2                  \* scopes a caller holds

\* The scopes a caller may hold, and the arguments tried; fleetId None is null or
\* undefined, "" the empty string.
HelperScopes ==
    { Scope(a, f, r, w) :
        a \in {"acc1", "acc2"}, f \in {None, "fleet1", "fleet2"}, r \in BOOLEAN, w \in BOOLEAN }
RECURSIVE ScopeSetsUpTo(_)
ScopeSetsUpTo(n) ==
    IF n = 0 THEN {{}}
    ELSE LET smaller == ScopeSetsUpTo(n - 1)
         IN  smaller \cup {ss \cup {sc} : ss \in smaller, sc \in HelperScopes}
HelperScopeSets == ScopeSetsUpTo(MaxScopes)
HelperAccountIds == {"acc1", "acc2"}
HelperFleetIds == {None, "", "fleet1", "fleet2"}

FleetGivenNever(fleetId) == FALSE
\* scopes.ts:41,53  if (fleetId)
FleetGiven(fleetId) == fleetId # None /\ fleetId # ""

\* scopes.ts:36-46
hasReadAccess(scopes, accountId, fleetId) ==
    \E scope \in scopes :
        IF scope.accountId # accountId THEN FALSE
        ELSE IF FleetGiven(fleetId) THEN scope.fleetId = fleetId /\ scope.canRead
        ELSE IF scope.fleetId = None THEN scope.canRead ELSE scope.canRead

\* scopes.ts:48-58
hasWriteAccess(scopes, accountId, fleetId) ==
    \E scope \in scopes :
        IF scope.accountId # accountId THEN FALSE
        ELSE IF FleetGiven(fleetId) THEN scope.fleetId = fleetId /\ scope.canWrite
        ELSE IF scope.fleetId = None THEN scope.canWrite ELSE scope.canWrite

IdleScopes ==
    sh = [pc |-> "idle", scopes |-> {}, accountId |-> "acc1", fleetId |-> None,
          read |-> FALSE, write |-> FALSE]

InitScopes ==
    \E scopes \in HelperScopeSets, accountId \in HelperAccountIds, fleetId \in HelperFleetIds :
        sh = [pc |-> "call", scopes |-> scopes, accountId |-> accountId, fleetId |-> fleetId,
              read |-> FALSE, write |-> FALSE]

\* scopes.ts:36-58  both helpers are applied to the arguments
ShApply ==
    /\ sh.pc = "call"
    /\ sh' = [sh EXCEPT !.pc = "done",
                        !.read = hasReadAccess(sh.scopes, sh.accountId, sh.fleetId),
                        !.write = hasWriteAccess(sh.scopes, sh.accountId, sh.fleetId)]
    /\ UNCHANGED exceptScopes

NextScopes == ShApply

\* ---------------------------------------------------------------- claims

\* ------------- concurrent syncAccountsFromConfig calls (api/accounts/sync/route.ts)
\* Two POSTs of the route in flight at once: each await of the handler is a point
\* where the other call's database statements may run.
CcCalls == {"p1", "p2"}

\* A UserScope row with its primary key.
ScopeRowWithId(id, row) ==
    [id |-> id, userId |-> row.userId, accountId |-> row.accountId, fleetId |-> row.fleetId,
     canRead |-> row.canRead, canWrite |-> row.canWrite, canInvite |-> row.canInvite]
CcScopeTables ==
    { {}, {ScopeRowWithId(1, ScopeRow(OwnerId, 2, NullFleet, TRUE, FALSE, FALSE)),
           ScopeRowWithId(2, ScopeRow(AgentId, 2, NullFleet, TRUE, FALSE, FALSE))} }

\* route.ts:40-42  prisma.userScope.findFirst: the ids it may return, 0 for null
FindFirst(table, userId, accountId) ==
    IF \E r \in table : IsAccountWide(r, userId, accountId)
    THEN {r.id : r \in {x \in table : IsAccountWide(x, userId, accountId)}}
    ELSE {0}

\* route.ts:43-59  update of the row found, or create of a new one
WriteGrant(table, existing, userId, accountId) ==
    IF existing # 0
    THEN { IF r.id = existing
           THEN ScopeRowWithId(r.id, FullScope(r.userId, r.accountId, r.fleetId))
           ELSE r : r \in table }
    ELSE table \cup {ScopeRowWithId(Cardinality(table) + 1,
                                    FullScope(userId, accountId, NullFleet))}

IdleCall == [pc |-> "idle", context |-> [role |-> "owner", userId |-> OwnerId],
             i |-> 0, accountId |-> 0, existing |-> 0]
IdleConc ==
    /\ cc = [env |-> <<>>, calls |-> [c \in CcCalls |-> IdleCall]]
    /\ ccScopes = {}

InitConc ==
    /\ acctTable \in AccountTables
    /\ ccScopes \in CcScopeTables
    /\ \A r \in ccScopes : \E a \in acctTable : a.id = r.accountId
    /\ \E env \in EnvAccountLists, ctx \in [CcCalls -> AcContexts] :
          cc = [env |-> env,
                calls |-> [c \in CcCalls |-> [IdleCall EXCEPT !.pc = "start", !.context = ctx[c]]]]
    /\ ac = [pc |-> "idle", context |-> [role |-> "owner", userId |-> OwnerId],
             env |-> <<>>, i |-> 0, accountId |-> 0, accounts0 |-> {}, scopes0 |-> {},
             calls |-> 0]
    /\ acResponse = NoResponse

CcSet(c, call) == cc' = [cc EXCEPT !.calls[c] = call]

\* route.ts:10-16  only the owner passes
CcBegin(c) ==
    /\ cc.calls[c].pc = "start"
    /\ CcSet(c, IF isOwner(cc.calls[c].context)
                THEN [cc.calls[c] EXCEPT !.pc = "account", !.i = 1]
                ELSE [cc.calls[c] EXCEPT !.pc = "refused"])
    /\ UNCHANGED <<acctTable, ccScopes, exceptConc>>

\* route.ts:18-38  await prisma.account.upsert
CcUpsert(c) ==
    /\ cc.calls[c].pc = "account"
    /\ cc.calls[c].i <= Len(cc.env)
    /\ acctTable' = UpsertAccount(acctTable, cc.env[cc.calls[c].i])
    /\ CcSet(c, [cc.calls[c] EXCEPT !.pc = "find",
                     !.accountId = UpsertedAccountId(acctTable, cc.env[cc.calls[c].i])])
    /\ UNCHANGED <<ccScopes, exceptConc>>

\* route.ts:40-42  await prisma.userScope.findFirst
CcFind(c) ==
    /\ cc.calls[c].pc = "find"
    /\ \E id \in FindFirst(ccScopes, cc.calls[c].context.userId, cc.calls[c].accountId) :
          CcSet(c, [cc.calls[c] EXCEPT !.pc = "write", !.existing = id])
    /\ UNCHANGED <<acctTable, ccScopes, exceptConc>>

\* route.ts:43-59  await prisma.userScope.update or create
CcWrite(c) ==
    /\ cc.calls[c].pc = "write"
    /\ ccScopes' = WriteGrant(ccScopes, cc.calls[c].existing,
                              cc.calls[c].context.userId, cc.calls[c].accountId)
    /\ CcSet(c, [cc.calls[c] EXCEPT !.pc = "account", !.i = cc.calls[c].i + 1])
    /\ UNCHANGED <<acctTable, exceptConc>>

\* route.ts:62  return jsonResponse({ ok: true, accounts: synced })
CcFinish(c) ==
    /\ cc.calls[c].pc = "account"
    /\ cc.calls[c].i > Len(cc.env)
    /\ CcSet(c, [cc.calls[c] EXCEPT !.pc = "done"])
    /\ UNCHANGED <<acctTable, ccScopes, exceptConc>>

\* route.ts:63-65  a database call throws: handleApiError answers
CcDbError(c) ==
    /\ cc.calls[c].pc \in {"account", "find", "write"}
    /\ cc.calls[c].pc = "account" => cc.calls[c].i <= Len(cc.env)
    /\ CcSet(c, [cc.calls[c] EXCEPT !.pc = "failed"])
    /\ UNCHANGED <<acctTable, ccScopes, exceptConc>>

NextConc ==
    \E c \in CcCalls :
        \/ CcBegin(c)
        \/ CcDbError(c)
        \/ CcUpsert(c)
        \/ CcFind(c)
        \/ CcWrite(c)
        \/ CcFinish(c)

\* ------------------- koreFetch under listSmsLogs and sendSmsCommand (lib/kore.ts)
MaxLogCalls == 2                \* calls of the sim logs route, the second following
                                \* the cursor the first returned

\* Strings are sequences of pieces; a scheme piece is what startsWith("http") sees,
\* a piece beginning with a slash is what startsWith("/") sees.
SchemePieces == {"https://", "http://"}
SlashPieces == {"/v1", "/SmsCommands", "/x"}
\* kore.ts:62-64  baseUrl(): KORE_SUPERSIM_BASE_URL without its trailing slash
BaseUrl == <<"https://", "kore", "/v1">>
StartsWith(s, prefix) ==
    Len(s) >= Len(prefix) /\ SubSeq(s, 1, Len(prefix)) = prefix
StartsWithHttp(s) == Len(s) > 0 /\ s[1] \in SchemePieces
StartsWithSlash(s) == Len(s) > 0 /\ s[1] \in SlashPieces

\* kore.ts:142  the url requested for a path
UrlOf(path) ==
    IF StartsWithHttp(path) THEN path
    ELSE BaseUrl \o (IF StartsWithSlash(path) THEN path ELSE <<"/">> \o path)

\* kore.ts:293-299  stripBase
stripBase(url) ==
    IF StartsWith(url, BaseUrl) THEN SubSeq(url, Len(BaseUrl) + 1, Len(url)) ELSE url

\* kore.ts:271-275  the path listSmsLogs asks for; an empty or absent cursor is falsy
NoCursor == <<>>
LogsPath(simSid, nextPageUrl) ==
    IF nextPageUrl # NoCursor THEN nextPageUrl
    ELSE <<"/SmsCommands", "?Sim=", simSid, "&PageSize=50">>
\* kore.ts:260  the path sendSmsCommand posts to
SendPath == <<"/SmsCommands">>

\* The cursors a caller passes, and the next_page_url values the provider answers.
LogCursors ==
    { NoCursor,
      <<"/SmsCommands", "?Page=2">>,
      <<"SmsCommands", "?Page=2">>,
      BaseUrl \o <<"/SmsCommands", "?Page=2">>,
      <<"https://", "evil", "/x">>,
      <<"http://", "kore", ".evil", "/v1", "/SmsCommands">> }
NextPageUrls ==
    { NoCursor, BaseUrl \o <<"/SmsCommands", "?Page=2">>, <<"https://", "mirror", "/x">> }

\* The callers and query parameters of the sim logs route.
LogContexts ==
    { [role |-> "owner", scopes |-> {}],
      [role |-> "agent", scopes |-> {Scope("A1", "F1", TRUE, FALSE)}],
      [role |-> "agent", scopes |-> {Scope("A1", "F2", FALSE, TRUE)}] }
LogSimIds == {"s1", "s4", "s9"}
LogAccountIds == {None, "A1", "A3"}

\* sims/route.ts:121-129  prisma.sim.findUnique and the account check
SimFound(simId, accountId) ==
    \E i \in 1..Len(DbSims) : DbSims[i].id = simId /\ DbSims[i].accountId = accountId
SimOf(simId) == CHOOSE sim \in {DbSims[i] : i \in 1..Len(DbSims)} : sim.id = simId
\* sims/route.ts:131-142  owner, or some scope of the account matching the fleet
\* with canRead
LogsAllowed(context, accountId, sim) ==
    \/ isOwner(context)
    \/ \E scope \in context.scopes :
          /\ scope.accountId = accountId
          /\ FleetMatch(scope, sim)
          /\ scope.canRead

\* A request put on the network: its url, the account whose bearer token it carries,
\* and whether the provider took it.
Request(method, url, bearer, taken) ==
    [method |-> method, url |-> url, bearer |-> bearer, taken |-> taken]

IdleKore ==
    /\ kf = [pc |-> "idle", op |-> "logs", context |-> [role |-> "owner", scopes |-> {}],
             simId |-> "", accountId |-> None, cursor |-> NoCursor, path |-> <<>>,
             attempt |-> 0, calls |-> 0, nextCursor |-> NoCursor]
    /\ wire = <<>>
    /\ kfResponse = NoResponse

KfCall(op, context, simId, accountId, cursor, calls) ==
    [pc |-> "start", op |-> op, context |-> context, simId |-> simId,
     accountId |-> accountId, cursor |-> cursor, path |-> <<>>, attempt |-> 0,
     calls |-> calls, nextCursor |-> NoCursor]

\* A GET of the sim logs route, or a sendSmsCommand call made by dispatch for a
\* resolved device with the credentials of its account.
InitKore ==
    /\ \/ \E context \in LogContexts, simId \in LogSimIds, accountId \in LogAccountIds,
             cursor \in LogCursors :
             kf = KfCall("logs", context, simId, accountId, cursor, 1)
       \/ \E simId \in {"s1", "s3"} :
             kf = [KfCall("send", [role |-> "owner", scopes |-> {}], simId,
                          SimOf(simId).accountId, NoCursor, 1)
                      EXCEPT !.pc = "token", !.path = SendPath]
    /\ wire = <<>>
    /\ kfResponse = NoResponse

\* sims/route.ts:111-159  the checks before listSmsLogs is called
LgBegin ==
    /\ kf.pc = "start" /\ kf.op = "logs"
    /\ IF kf.accountId = None
       THEN /\ kfResponse' = [status |-> 400, error |-> "accountId is required", results |-> FALSE]
            /\ kf' = [kf EXCEPT !.pc = "done"]
       ELSE IF ~SimFound(kf.simId, kf.accountId)
       THEN /\ kfResponse' = [status |-> 404, error |-> "SIM not found", results |-> FALSE]
            /\ kf' = [kf EXCEPT !.pc = "done"]
       ELSE IF ~LogsAllowed(kf.context, kf.accountId, SimOf(kf.simId))
       THEN /\ kfResponse' = Forbidden("Read scope missing")
            /\ kf' = [kf EXCEPT !.pc = "done"]
       ELSE IF kf.accountId \in UndecryptableAccounts
       THEN /\ kfResponse' = handleApiError(DecryptError)
            /\ kf' = [kf EXCEPT !.pc = "done"]
       ELSE /\ kf' = [kf EXCEPT !.pc = "token", !.path = LogsPath(kf.simId, kf.cursor)]
            /\ UNCHANGED kfResponse
    /\ UNCHANGED <<wire, exceptKore>>

\* kore.ts:141  await getAccessToken(account): a token, or the failure thrown
KfToken ==
    /\ kf.pc = "token"
    /\ \/ /\ kf' = [kf EXCEPT !.pc = "fetch"]
          /\ UNCHANGED kfResponse
       \/ /\ kf' = [kf EXCEPT !.pc = "done"]
          /\ kfResponse' = handleApiError([isHttpError |-> FALSE, status |-> 0, message |-> "token"])
    /\ UNCHANGED <<wire, exceptKore>>

KfRequest(taken) ==
    Request(IF kf.op = "send" THEN "POST" ELSE "GET", UrlOf(kf.path), kf.accountId, taken)

\* kore.ts:143-160, 276-290  the fetch resolves with an ok response
KfOk ==
    /\ kf.pc = "fetch"
    /\ wire' = Append(wire, KfRequest(TRUE))
    /\ \E next \in NextPageUrls :
          kf' = [kf EXCEPT !.pc = "done",
                           !.nextCursor = IF kf.op = "logs" THEN stripBase(next) ELSE NoCursor]
    /\ kfResponse' = OkResponse
    /\ UNCHANGED exceptKore

\* kore.ts:156-159  the fetch resolves with a response that is not ok: KoreHttpError
KfHttpError ==
    /\ kf.pc = "fetch"
    /\ wire' = Append(wire, KfRequest(FALSE))
    /\ kf' = [kf EXCEPT !.pc = "done"]
    /\ kfResponse' = handleApiError([isHttpError |-> FALSE, status |-> 0, message |-> "KORE API request failed"])
    /\ UNCHANGED exceptKore

\* retry.ts:12-19  the catch of withRetry after a fetch that rejected
KfAfterReject ==
    IF RetryExhausted(kf.attempt + 1, DefaultRetries)
    THEN /\ kf' = [kf EXCEPT !.pc = "done", !.attempt = kf.attempt + 1]
         /\ kfResponse' = handleApiError([isHttpError |-> FALSE, status |-> 0, message |-> "fetch failed"])
    ELSE /\ kf' = [kf EXCEPT !.pc = "sleep", !.attempt = kf.attempt + 1]
         /\ UNCHANGED kfResponse

\* kore.ts:127-138  the fetch rejects after the provider took the request: the
\* response is lost, or the 20 s timer aborts the wait for it
KfLost ==
    /\ kf.pc = "fetch"
    /\ wire' = Append(wire, KfRequest(TRUE))
    /\ KfAfterReject
    /\ UNCHANGED exceptKore

\* kore.ts:127-138  the fetch rejects and the request never arrived
KfDropped ==
    /\ kf.pc = "fetch"
    /\ wire' = Append(wire, KfRequest(FALSE))
    /\ KfAfterReject
    /\ UNCHANGED exceptKore

\* retry.ts:18  the backoff sleep is over: fn() is invoked again
KfWake ==
    /\ kf.pc = "sleep"
    /\ kf' = [kf EXCEPT !.pc = "fetch"]
    /\ UNCHANGED <<wire, kfResponse, exceptKore>>

\* sims/route.ts:109,114  the caller asks for the next page with the cursor returned
LgAgain ==
    /\ kf.pc = "done" /\ kf.op = "logs"
    /\ kfResponse = OkResponse
    /\ kf.nextCursor # NoCursor
    /\ kf.calls < MaxLogCalls
    /\ kf' = KfCall("logs", kf.context, kf.simId, kf.accountId, kf.nextCursor, kf.calls + 1)
    /\ kfResponse' = NoResponse
    /\ UNCHANGED <<wire, exceptKore>>

NextKore ==
    \/ LgBegin
    \/ KfToken
    \/ KfOk
    \/ KfHttpError
    \/ KfLost
    \/ KfDropped
    \/ KfWake
    \/ LgAgain

\* ------------------------------------------------ parallelLimit (unnamed/part_004)
MaxItems == 3                   \* items handed to parallelLimit
MaxParLimit == 3                \* the limit argument, from 0

ParallelRetries == 3            \* part_004:41

PlWorkers == 1..MaxParLimit
\* options?.retries: absent, or the number given
PlRetryOptions == {Absent, 1}

\* part_004:31  the empty list and limit <= 1 go to sequentialProcess
UsesSequential(n, limit) == n = 0 \/ limit <= 1

WorkerCountAll(n, limit) == n
\* part_004:46 (and the one loop of sequentialProcess, part_004:10-13)
WorkerCount(n, limit) ==
    IF UsesSequential(n, limit) THEN (IF n = 0 THEN 0 ELSE 1)
    ELSE IF limit < n THEN limit ELSE n

\* part_004:8,41  the retries handed to withRetry
RetriesOf(n, limit, option) ==
    IF option # Absent THEN option
    ELSE IF UsesSequential(n, limit) THEN SequentialRetries ELSE ParallelRetries

NoWorker == [pc |-> "none", item |-> 0, attempt |-> 0]
Running(item) == [pc |-> "run", item |-> item, attempt |-> 0]

IdlePar ==
    /\ pl = [pc |-> "idle", n |-> 0, limit |-> 0, option |-> Absent, index |-> 0,
             workers |-> [w \in PlWorkers |-> NoWorker]]
    /\ plStarted = <<>>
    /\ plResult = "pending"

InitPar ==
    /\ \E n \in 0..MaxItems, limit \in 0..MaxParLimit, option \in PlRetryOptions :
          pl = [pc |-> "call", n |-> n, limit |-> limit, option |-> option, index |-> 0,
                workers |-> [w \in PlWorkers |-> NoWorker]]
    /\ plStarted = <<>>
    /\ plResult = "pending"

\* What Promise.all (part_004:49), or the await of sequentialProcess, has settled to
\* once the workers stand like this: rejected by the first worker that threw,
\* resolved when every worker returned.
SettledTo(result, workers) ==
    IF result # "pending" THEN result
    ELSE IF \E w \in PlWorkers : workers[w].pc = "failed" THEN "rejected"
    ELSE IF \A w \in PlWorkers : workers[w].pc \in {"none", "done"} THEN "resolved"
    ELSE "pending"

\* part_004:31-48  the call: each worker made takes the next index and invokes the
\* handler for it before the next worker is made
PlSpawn ==
    /\ pl.pc = "call"
    /\ LET k == WorkerCount(pl.n, pl.limit)
           ws == [w \in PlWorkers |-> IF w <= k THEN Running(w) ELSE NoWorker]
       IN  /\ pl' = [pl EXCEPT !.pc = "running", !.index = k, !.workers = ws]
           /\ plStarted' = [i \in 1..k |-> [item |-> i, worker |-> i]]
           /\ plResult' = SettledTo(plResult, ws)
    /\ UNCHANGED exceptPar

\* part_004:37-44 (part_004:10-12)  a handler resolved: its worker takes the next
\* index and invokes the handler for that item, or returns when the list is used up
PlHandlerOk(w) ==
    /\ pl.pc = "running"
    /\ pl.workers[w].pc = "run"
    /\ LET current == pl.index + 1
           ws == [pl.workers EXCEPT ![w] = IF current > pl.n
                                           THEN [@ EXCEPT !.pc = "done"]
                                           ELSE Running(current)]
       IN  /\ pl' = [pl EXCEPT !.index = IF current > pl.n /\ UsesSequential(pl.n, pl.limit)
                                         THEN pl.index ELSE current,
                               !.workers = ws]
           /\ plStarted' = IF current > pl.n THEN plStarted
                           ELSE Append(plStarted, [item |-> current, worker |-> w])
           /\ plResult' = SettledTo(plResult, ws)
    /\ UNCHANGED exceptPar

\* retry.ts:12-19  a handler rejected: withRetry throws once the retries are used up
\* and sleeps otherwise
PlHandlerFail(w) ==
    /\ pl.pc = "running"
    /\ pl.workers[w].pc = "run"
    /\ LET attempt == pl.workers[w].attempt + 1
           ws == [pl.workers EXCEPT ![w] =
                     [@ EXCEPT !.attempt = attempt,
                               !.pc = IF RetryExhausted(attempt,
                                                        RetriesOf(pl.n, pl.limit, pl.option))
                                      THEN "failed" ELSE "sleep"]]
       IN  /\ pl' = [pl EXCEPT !.workers = ws]
           /\ plResult' = SettledTo(plResult, ws)
    /\ UNCHANGED <<plStarted, exceptPar>>

\* retry.ts:18,11  the backoff sleep is over: the handler is invoked again
PlWake(w) ==
    /\ pl.pc = "running"
    /\ pl.workers[w].pc = "sleep"
    /\ pl' = [pl EXCEPT !.workers[w].pc = "run"]
    /\ UNCHANGED <<plStarted, plResult, exceptPar>>

NextPar ==
    \/ PlSpawn
    \/ \E w \in PlWorkers : PlHandlerOk(w)
    \/ \E w \in PlWorkers : PlHandlerFail(w)
    \/ \E w \in PlWorkers : PlWake(w)

IdleThird == IdleConc /\ IdleKore /\ IdlePar


RECURSIVE FailSleep(_)
FailSleep(k) == IF k = 0 THEN <<>> ELSE <<"fail", "sleep">> \o FailSleep(k - 1)

\* C8: withRetry with retries = r that returns has invoked the operation k+1 times for
\* some k <= r, the first k failing, with one sleep after each failure and none after
\* the success; when it throws it has invoked the operation r+1 times, slept r times
\* (never after the last failure) and throws the last failure.
C8_RetryInvocations ==
    /\ wr.pc = "returned" =>
          /\ \E k \in 0..wr.retries : wrLog = FailSleep(k) \o <<"ok">>
          /\ wr.result \in Values
    /\ wr.pc = "thrown" =>
          /\ wrLog = FailSleep(wr.retries) \o <<"fail">>
          /\ wr.thrown = wr.lastError
          /\ wr.thrown \in Errors
    /\ wr.pc = "sleep" => \E k \in 1..wr.retries : wrLog = FailSleep(k)

\* C8 witness: retries = 3, the operation failed twice and then succeeded.
C8_Witness ==
    /\ wr.pc = "returned"
    /\ wr.retries = 3
    /\ wrLog = <<"fail", "sleep", "fail", "sleep", "ok">>

\* C7: with limit >= 1, a call returns exactly when it is among the first `limit`
\* calls of its key's window (a call at or after the window's end opens a new window
\* and returns); a rejected call leaves the store as it was; no call changes the
\* bucket of another key.
C7_FixedWindow ==
    rlLast.key # None =>
        /\ rlLast.ok <=> gCalls[rlLast.key] <= rlLimit
        /\ ~rlLast.ok => store = rlPrev
        /\ \A k \in Keys \ {rlLast.key} : store[k] = rlPrev[k]
        /\ gCalls[rlLast.key] = 1 =>
              store[rlLast.key] = [tokens |-> rlLimit - 1,
                                   resetAt |-> gStart[rlLast.key] + rlWindow]

\* C7 witness: limit 2, the third call of the window is rejected.
C7_Witness ==
    /\ rlLast.key # None
    /\ ~rlLast.ok
    /\ rlLimit = 2
    /\ gCalls[rlLast.key] = 3

OpenFetches(t) == {f \in 1..nFetch : fetches[f].tenant = t /\ ~Settled(f)}

\* C1: for every tenant at most one token fetch is unsettled at any time; every caller
\* waiting for that tenant's token holds the promise of that one fetch (or of one that
\* has settled and is about to resume it), and a caller resumed by a promise gets the
\* token of that promise's fetch or its failure.
C1_SingleFetch ==
    /\ \A t \in Tenants : Cardinality(OpenFetches(t)) <= 1
    /\ \A c \in Callers : callers[c].st = "waiting" =>
          /\ fetches[callers[c].promise].tenant = callers[c].tenant
          /\ \A f \in OpenFetches(callers[c].tenant) :
                callers[c].promise = f \/ Settled(callers[c].promise)
    /\ tokLast.promise # 0 => tokLast.result \in {tokLast.promise, ErrorResult}

\* C1 witness: two callers await the one unsettled fetch of a tenant.
C1_Witness ==
    \E c1, c2 \in Callers :
        /\ c1 # c2
        /\ callers[c1].st = "waiting" /\ callers[c2].st = "waiting"
        /\ callers[c1].promise = callers[c2].promise
        /\ ~Settled(callers[c1].promise)
        /\ nFetch = 1

\* C2: whenever a token fetch has failed, the in-flight marker of its tenant is not
\* that fetch's promise any more.
C2_MarkerCleared ==
    \A f \in 1..nFetch :
        fetches[f].stage = "rejected" => tokenInFlight[fetches[f].tenant] # f

SimById(id) == CHOOSE sim \in {DbSims[i] : i \in 1..Len(DbSims)} : sim.id = id

\* The scope rule of the claim: a scope on the device's account, for its fleet or
\* account-wide, with canWrite for a write command and canRead otherwise.
ScopeCovers(sim) ==
    \E sc \in dp.context.scopes :
        /\ sc.accountId = sim.accountId
        /\ sc.fleetId \in {None, sim.fleetId}
        /\ IF dp.body.command \in WRITE_COMMANDS THEN sc.canWrite ELSE sc.canRead

\* C3: for a caller that is no owner, sendSmsCommand is called only for devices the
\* scope rule covers; a resolved device's entry is `forbidden` exactly when the rule
\* does not cover it, and at the end every resolved device the rule does not cover has
\* such an entry.
C3_ScopeDecides ==
    dp.context.role # "owner" =>
        /\ dp.pc \in {"send", "log", "sleep"} => ScopeCovers(dp.sims[dp.si])
        /\ \A i \in 1..Len(sent) : ScopeCovers(SimById(sent[i].simId))
        /\ \A i \in 1..Len(results) : results[i].simId # "" =>
              (results[i].status = "forbidden" <=> ~ScopeCovers(SimById(results[i].simId)))
        /\ (dp.pc = "done" /\ response = OkResponse) =>
              \A g \in 1..Len(dp.groups) : \A j \in 1..Len(Resolve(dp.groups[g])) :
                  ~ScopeCovers(Resolve(dp.groups[g])[j]) =>
                      \E i \in 1..Len(results) :
                          /\ results[i].simId = Resolve(dp.groups[g])[j].id
                          /\ results[i].status = "forbidden"

\* C3 witness: the caller's only grant is fleet-scoped, canRead and not canWrite; the
\* write command reset was refused for the device of that fleet.
C3_Witness ==
    /\ dp.pc = "done"
    /\ dp.context = [role |-> "agent", scopes |-> {Scope("A1", "F1", TRUE, FALSE)}]
    /\ dp.body.command = "reset"
    /\ \E i \in 1..Len(results) : results[i].simId = "s1" /\ results[i].status = "forbidden"
    /\ sent = <<>>

\* What the result list of a group must hold: one entry per resolved device, or one
\* error entry when the group resolved none.
ExpectedOfGroup(target) ==
    IF target.accountId \notin Accounts \/ Resolve(target) = <<>>
    THEN <<"">>
    ELSE [j \in 1..Len(Resolve(target)) |-> Resolve(target)[j].id]

RECURSIVE ExpectedEntries(_)
ExpectedEntries(groups) ==
    IF groups = <<>> THEN <<>>
    ELSE ExpectedOfGroup(Head(groups)) \o ExpectedEntries(Tail(groups))

\* C4: a dispatch that passed validation and the rate-limit gate returns a result list
\* with exactly one entry per resolved device of each group and one error entry per
\* group that resolved none, in traversal order.
C4_OneEntryPerDevice ==
    (dp.pc = "done" /\ dp.gated) =>
        /\ response.results
        /\ [i \in 1..Len(results) |-> results[i].simId] = ExpectedEntries(dp.groups)
        /\ \A i \in 1..Len(results) : results[i].simId = "" => results[i].status = "error"

\* C5: once the gate is passed, no failure of one group aborts the batch: the call
\* answers 200 with the results, which hold an entry for every group.
C5_GroupFailureIsolated ==
    (dp.pc = "done" /\ dp.gated) =>
        /\ response.status = HttpOk
        /\ \A g \in 1..Len(dp.groups) :
              \E i \in 1..Len(results) : results[i].accountId = dp.groups[g].accountId

\* C6: a dispatch stopped by the rate limiter answers with the rate-limit error, and
\* has resolved nothing, sent nothing, logged nothing and returns no entries.
C6_RateLimitReported ==
    (dp.pc = "done" /\ ~dp.gated /\ RequestValid(dp.body)) =>
        /\ response.error = RateLimitError.message
        /\ ~response.results
        /\ results = <<>> /\ sent = <<>> /\ logs = <<>>
        /\ dp.sims = <<>>

\* C9: a listing that ends on a candidate that delivered devices returns the devices
\* of that candidate alone, and no request went to a later candidate.
C9_FirstYieldingOnly ==
    (ls.pc = "done" /\ lsLast = HttpOk /\ ls.fetchedAny) =>
        /\ lsBase = 0
        /\ lsMaxReq = ls.cand

\* C10 as claimed: a candidate is left for the next one only on a 404 or 400 answer;
\* any other HTTP error ends the listing with that error, no further candidate tried.
C10_AdvanceOnlyOn404Or400 ==
    /\ \A x \in lsLeft : x.status \in {404, 400}
    /\ lsLast \notin {Untried, HttpOk, 404, 400} => ls.pc = "thrown" /\ lsMaxReq = ls.cand

\* C10 amended: a candidate is left for the next one only when its request failed with
\* status 404 or 400, or when its pages ended without a device; any other error ends
\* the listing with that error, no further candidate tried.
C10_AdvanceOn404Or400OrEmpty ==
    /\ \A x \in lsLeft : x.status \in {404, 400} \/ (x.status = HttpOk /\ ~x.yielded)
    /\ lsLast \notin {Untried, HttpOk, 404, 400} => ls.pc = "thrown" /\ lsMaxReq = ls.cand

\* C10 witness: the first candidate answered 404, the second 500: the listing threw.
C10_Witness ==
    /\ ls.pc = "thrown"
    /\ ls.cand = 2
    /\ lsLeft = {[status |-> 404, yielded |-> FALSE]}
    /\ lsLast = 500

\* C11: running syncDevices twice against the same provider data leaves the Sim rows
\* the first run left, and at all times no two rows share an external device id.
C11_SyncIdempotent ==
    /\ \A r1, r2 \in simTable : r1.simSid = r2.simSid => r1 = r2
    /\ (sy.pc = "done" /\ sy.run >= 2) => simTable = syFirst.table

\* A second run is through after a retried upsert; the rows hold a device that was
\* stored stale under another account, one listed under two fleets and an untouched one.
C11_Witness ==
    /\ sy.pc = "done" /\ sy.run = 2 /\ syResponse = OkResponse
    /\ sy.failLeft = 0 /\ MaxDbFailures > 0
    /\ SimRow(1, "d1", "A1", "F1", "i1", "active") \in simTable
    /\ SimRow(2, "d9", "A1", "F1", "i9", "active") \in simTable
    /\ \E r \in simTable : r.simSid = "d2" /\ r.fleetId = "F2"
    /\ Cardinality(simTable) = 5

\* C12: in syncFleets every loaded account gets exactly one result entry, in order,
\* whatever failed for the accounts before it; an account whose secret does not
\* decrypt or whose listing failed gets an error entry, and the run answers ok.
C12_AccountFailureIsolated ==
    /\ sf.pc \in {"account", "upsert"} =>
          /\ Len(sfResults) = sf.ai - 1
          /\ \A i \in 1..Len(sfResults) : sfResults[i].accountId = sf.accounts[i]
    /\ (sf.pc = "done" /\ sfResponse.status # 403) =>
          /\ sfResponse = OkResponse
          /\ Len(sfResults) = Len(sf.accounts)
          /\ \A i \in 1..Len(sfResults) :
                /\ sfResults[i].accountId = sf.accounts[i]
                /\ (\/ sf.accounts[i] \in UndecryptableAccounts
                    \/ sfRemote[sf.accounts[i]].status # HttpOk) => sfResults[i].error # ""

\* The token request of the first account was refused, an upsert of the second
\* succeeded and the third's secret did not decrypt: three entries.
C12_Witness ==
    /\ sf.pc = "done"
    /\ sf.accounts = <<"A1", "A2", "A3">>
    /\ sfRemote["A1"].status = 401
    /\ sfResults = << FleetResult("A1", 0, "KORE API request failed"),
                      FleetResult("A2", 1, ""),
                      FleetResult("A3", 0, DecryptError.message) >>
    /\ \E r \in fleetTable : r.accountId = "A2" /\ r.externalRef = "x3"

\* C13: every fleet syncDevices has handled for which the provider answers 404 on
\* every listing candidate (the fleet is gone) was logged as not found.
C13_GoneFleetWarned ==
    \A i \in 1..Len(summary) :
        LET e == summary[i]
        IN  (/\ e.fleetId # None
             /\ remote.tok[e.accountId] = HttpOk
             /\ remote.fleets[e.fleetId] = Gone) => e.fleetId \in syWarned

\* C14: when a run of syncDevices is through, every account it had to list fleets
\* for and whose token request the token endpoint did not answer 2xx has an error
\* entry in the summary and no entry of a synced fleet.
C14_TokenFailureReported ==
    (sy.pc = "done" /\ syResponse = OkResponse) =>
        \A k \in 1..Len(sy.accounts) :
            LET account == sy.accounts[k]
            IN  (/\ account \notin UndecryptableAccounts
                 /\ remote.tok[account] # HttpOk
                 /\ TargetFleets(sy.context, sy.body, account) # <<>>) =>
                    /\ \E i \in 1..Len(summary) :
                          summary[i].accountId = account /\ summary[i].error # ""
                    /\ \A i \in 1..Len(summary) :
                          summary[i].accountId = account => summary[i].fleetId = None

\* C15: a call of syncAccountsFromConfig by a non-owner is answered 403 and leaves
\* the Account and UserScope rows as it found them; a call by the owner that ran to
\* its end leaves, for every configured client id, exactly one Account row, and for
\* the owner an account-wide scope on it with read, write and invite granted, and
\* no account-wide scope of the owner on it with less.
C15_OwnerOnlyAccountSync ==
    /\ ~isOwner(ac.context) =>
          /\ acctTable = ac.accounts0 /\ userScopes = ac.scopes0
          /\ ac.pc = "done" => acResponse.status = 403
    /\ (isOwner(ac.context) /\ ac.pc = "done" /\ acResponse = OkResponse) =>
          \A k \in 1..Len(ac.env) :
              /\ Cardinality({r \in acctTable : r.clientId = ac.env[k].clientId}) = 1
              /\ \A r \in acctTable : r.clientId = ac.env[k].clientId =>
                    /\ FullScope(ac.context.userId, r.id, NullFleet) \in userScopes
                    /\ \A sc \in userScopes : IsAccountWide(sc, ac.context.userId, r.id) =>
                          sc = FullScope(ac.context.userId, r.id, NullFleet)

\* The owner's call ran to its end over two configured accounts, one stored before
\* under an old label with a read-only account-wide scope, the other new.
C15_Witness ==
    /\ isOwner(ac.context) /\ ac.pc = "done" /\ acResponse = OkResponse /\ ac.calls = 1
    /\ Len(ac.env) = 2
    /\ AccountRow(2, "k1", "Parent", encryptSecret("s1")) \in acctTable
    /\ AccountRow(3, "k2", "Child", encryptSecret("s2")) \in acctTable
    /\ ScopeRow(OwnerId, 2, NullFleet, TRUE, FALSE, FALSE) \in ac.scopes0
    /\ FullScope(OwnerId, 3, NullFleet) \in userScopes
    /\ ScopeRow(AgentId, 2, NullFleet, TRUE, FALSE, FALSE) \in userScopes


\* The accounts syncFleets may touch for this caller and body: for the owner the
\* filter, or every account when there is none; for anyone else the accounts on which
\* a scope of the caller carries canWrite, within the filter when there is one.
EffectiveAccounts(context, body) ==
    LET writable == {a \in Accounts :
                        \E sc \in context.scopes : sc.accountId = a /\ sc.canWrite}
        filtered(S) == IF body.accountIds = {} THEN S ELSE S \cap body.accountIds
    IN  IF context.role = "owner" THEN filtered(Accounts) ELSE filtered(writable)

\* C16: syncFleets calls the provider and writes Fleet rows only for accounts of the
\* effective set, and an owner's run without a filter that is through has loaded
\* every account.
C16_OnlyEffectiveAccounts ==
    /\ sfContacted \subseteq EffectiveAccounts(sf.context, sf.body)
    /\ \A r \in fleetTable :
          r \in sf.fleets0 \/ r.accountId \in EffectiveAccounts(sf.context, sf.body)
    /\ \A r \in sf.fleets0 :
          r.accountId \notin EffectiveAccounts(sf.context, sf.body) => r \in fleetTable
    /\ (sf.pc = "done" /\ isOwner(sf.context) /\ sf.body.accountIds = {}) =>
          sf.accounts = DbAccounts

\* An agent with a write scope on A2 only and a read scope on A1 asked for both
\* accounts: A2 alone was contacted and written.
C16_Witness ==
    /\ sf.pc = "done" /\ sfResponse = OkResponse
    /\ sf.context.role = "agent"
    /\ sf.body.accountIds = {"A1", "A2"}
    /\ Scope("A1", None, TRUE, FALSE) \in sf.context.scopes
    /\ sfContacted = {"A2"}
    /\ \E r \in fleetTable : r.accountId = "A2" /\ r.externalRef = "x3" /\ r \notin sf.fleets0

\* The precedence rule of the claim: the scopes of the caller for the device's own
\* fleet decide when there are any, the account-wide scopes decide otherwise.
PrecedenceCovers(sim) ==
    LET permits(sc) == IF dp.body.command \in WRITE_COMMANDS THEN sc.canWrite ELSE sc.canRead
        ofAccount == {sc \in dp.context.scopes : sc.accountId = sim.accountId}
        ofFleet == {sc \in ofAccount : sc.fleetId = sim.fleetId}
        accountWide == {sc \in ofAccount : sc.fleetId = None}
    IN  IF ofFleet # {} THEN \E sc \in ofFleet : permits(sc)
        ELSE \E sc \in accountWide : permits(sc)

\* C17: for a caller that is no owner, a command is sent to a device only when the
\* precedence rule covers it, and a resolved device's entry is `forbidden` exactly
\* when the rule does not cover it.
C17_FleetScopeDecides ==
    dp.context.role # "owner" =>
        /\ \A i \in 1..Len(sent) : PrecedenceCovers(SimById(sent[i].simId))
        /\ \A i \in 1..Len(results) : results[i].simId # "" =>
              (results[i].status = "forbidden" <=> ~PrecedenceCovers(SimById(results[i].simId)))

\* C18: hasReadAccess and hasWriteAccess answer false when the caller has no scope on
\* the account; given a fleet id they answer true exactly when a scope of the account
\* for that very fleet carries the flag; given none (null, undefined or the empty
\* string) they answer true exactly when some scope of the account carries the flag.
C18_ScopeHelpers ==
    sh.pc = "done" =>
        LET onAccount == {sc \in sh.scopes : sc.accountId = sh.accountId}
            onFleet == {sc \in onAccount : sc.fleetId = sh.fleetId}
        IN  /\ onAccount = {} => ~sh.read /\ ~sh.write
            /\ sh.fleetId \in {"fleet1", "fleet2"} =>
                  /\ sh.read <=> \E sc \in onFleet : sc.canRead
                  /\ sh.write <=> \E sc \in onFleet : sc.canWrite
            /\ sh.fleetId \in {None, ""} =>
                  /\ sh.read <=> \E sc \in onAccount : sc.canRead
                  /\ sh.write <=> \E sc \in onAccount : sc.canWrite

\* The scopes of the helpers' test: account-wide read and write and a read-only scope
\* on fleet1; write on fleet1 is denied, read granted.
C18_Witness ==
    /\ sh.pc = "done"
    /\ sh.scopes = {Scope("acc1", None, TRUE, TRUE), Scope("acc1", "fleet1", TRUE, FALSE)}
    /\ sh.accountId = "acc1" /\ sh.fleetId = "fleet1"
    /\ sh.read /\ ~sh.write

\* A getAccessToken call for tenant t that goes to the network or joins a request.
CallAwaits(t) ==
    \E c \in Callers : callers[c].st = "idle" /\ callers'[c].st = "waiting"
                       /\ callers'[c].tenant = t
\* A getAccessToken call for tenant t that returns the cached token.
CallReturnsCached(t) ==
    tokLast' # tokLast /\ tokLast'.promise = 0 /\ tokLast'.tenant = t
\* The fetch f has its token: the .then callback ran to its end.
FetchResolves(f) == fetches[f].stage # "resolved" /\ fetches'[f].stage = "resolved"
\* The cached token of tenant t stays valid for d more milliseconds.
Remaining(t) == tokenCache[t].expiresAt - now
\* A successful fetch caches its token with expiry = now + expires_in, 3600 s when
\* the answer carries none, and only a fetch that did so hands a token to a caller.
StoredBeforeDelivered ==
    /\ \A f \in FetchIds : FetchResolves(f) =>
          /\ tokenCache'[fetches[f].tenant].token = f
          /\ tokenCache'[fetches[f].tenant].expiresAt - now \in
                {e * MsPerSecond : e \in (ExpiresIns \ {Absent}) \cup {DefaultExpiresInS}}
    /\ (tokLast' # tokLast /\ tokLast'.promise # 0 /\ tokLast'.result # ErrorResult) =>
          fetches[tokLast'.promise].stage = "resolved"

\* C19 as stated: no call awaits a request while the cached token is valid for at
\* least the 10-second margin, the cached token is never returned with less, and a
\* successful fetch stores the token with its expiry before a caller receives it.
C19_CachedWithinMargin ==
    [][ /\ \A t \in Tenants :
              /\ CallAwaits(t) =>
                    ~(tokenCache[t] # NoEntry /\ Remaining(t) >= SafetyMarginMs)
              /\ CallReturnsCached(t) =>
                    (tokenCache[t] # NoEntry /\ Remaining(t) >= SafetyMarginMs)
        /\ StoredBeforeDelivered ]_vars

\* C19 amended: the margin is exclusive: the cached token is returned, with no
\* request, exactly when it stays valid for more than 10 seconds.
C19_CachedBeyondMargin ==
    [][ /\ \A t \in Tenants :
              /\ CallAwaits(t) =>
                    ~(tokenCache[t] # NoEntry /\ Remaining(t) > SafetyMarginMs)
              /\ CallReturnsCached(t) =>
                    (tokenCache[t] # NoEntry /\ Remaining(t) > SafetyMarginMs)
        /\ StoredBeforeDelivered ]_vars

\* A token fetched with no expires_in in the answer, and so cached for 3600 s, was
\* returned from the cache one tick later, with no request in flight.
C19_Witness ==
    /\ now = TickMs
    /\ \E t \in Tenants :
          /\ tokLast = [tenant |-> t, promise |-> 0, result |-> tokenCache[t].token]
          /\ tokenCache[t].expiresAt = DefaultExpiresInS * MsPerSecond
          /\ tokenInFlight[t] = 0

\* The requests the claim calls invalid: a command outside the catalog, `custom`
\* with no text or a blank one, or a text of more than 160 characters.
Malformed(body) ==
    \/ body.command \notin ALL_COMMANDS
    \/ body.command = "custom" /\ (body.text.len = Absent \/ body.text.trimmed = "")
    \/ body.text.len # Absent /\ body.text.len > 160

\* A group of a known account whose secret decrypts, with identifiers that match no
\* stored device.
ResolvesNone(target) ==
    /\ target.accountId \in Accounts \ UndecryptableAccounts
    /\ target.simIds \cup target.iccids \cup target.uniqueNames # {}
    /\ \A i \in 1..Len(DbSims) :
          DbSims[i].accountId = target.accountId =>
              /\ DbSims[i].id \notin target.simIds
              /\ DbSims[i].iccid \notin target.iccids
              /\ DbSims[i].uniqueName \notin target.uniqueNames

\* C20: a malformed dispatch never leaves the start but to end with 422: the gate is
\* not passed, nothing is resolved, sent or logged and no entry made; a `custom`
\* dispatch with text whose groups all resolve no device ends ok with one
\* "No SIMs resolved for target" error entry per group and nothing sent or logged.
C20_RejectedBeforeNetwork ==
    /\ Malformed(dp.body) =>
          /\ dp.pc \in {"idle", "start", "done"}
          /\ ~dp.gated /\ dp.sims = <<>>
          /\ sent = <<>> /\ logs = <<>> /\ results = <<>>
          /\ dp.pc = "done" => response.status = 422 /\ ~response.results
    /\ (/\ dp.body.command = "custom" /\ ~Malformed(dp.body)
        /\ \A g \in 1..Len(dp.groups) : ResolvesNone(dp.groups[g])) =>
          /\ dp.pc \in {"idle", "start", "accounts", "resolve", "done"}
          /\ sent = <<>> /\ logs = <<>>
          /\ (dp.pc = "done" /\ dp.gated) =>
                /\ response = OkResponse
                /\ Len(results) = Len(dp.groups)
                /\ \A g \in 1..Len(results) :
                      results[g] = Result("error", dp.groups[g].accountId, "",
                                          "No SIMs resolved for target")

\* `custom` with the text AT+INFO went to one group naming no stored device: one
\* error entry, nothing sent.
C20_Witness ==
    /\ dp.pc = "done"
    /\ dp.body = [command |-> "custom", text |-> InfoText]
    /\ Len(dp.groups) = 1
    /\ results = <<Result("error", "A1", "", "No SIMs resolved for target")>>
    /\ response = OkResponse /\ sent = <<>>


\* C21: after any interleaving of concurrent syncAccountsFromConfig calls by the
\* same owner there is at most one UserScope row for each (owner, account, null
\* fleet) combination.
C21_OneGrantPerAccount ==
    \A r1 \in ccScopes, r2 \in ccScopes :
        (/\ r1.userId = r2.userId /\ r1.accountId = r2.accountId
         /\ r1.fleetId = NullFleet /\ r2.fleetId = NullFleet) => r1.id = r2.id


\* A scope of the caller with canWrite on the device's account, for the device's
\* fleet or account-wide.
WriteScopeCovers(sim) ==
    \E sc \in dp.context.scopes :
        /\ sc.accountId = sim.accountId
        /\ sc.fleetId \in {None, sim.fleetId}
        /\ sc.canWrite

\* C22: for a caller that is no owner, the name of a write command of the catalog
\* reaches a device as the wire command only if the caller holds a canWrite scope
\* covering the device, whatever command and text the request names, `custom`
\* included.
C22_WriteTextNeedsWriteScope ==
    dp.context.role # "owner" =>
        \A i \in 1..Len(sent) :
            sent[i].command \in WRITE_COMMANDS => WriteScopeCovers(SimById(sent[i].simId))


\* A url under the configured provider base url: the base url itself, or the base url
\* followed by a path.
UnderBaseUrl(url) ==
    /\ StartsWith(url, BaseUrl)
    /\ Len(url) > Len(BaseUrl) => url[Len(BaseUrl) + 1] \in SlashPieces \cup {"/"}

\* C23: every request that carries an account's bearer token goes to a url under the
\* configured provider base url, whatever cursor the caller of the sim logs route
\* passes.
C23_TokenOnlyToProvider ==
    \A i \in 1..Len(wire) : UnderBaseUrl(wire[i].url)

\* C24: for one device occurrence of a dispatch, the command is taken by the provider
\* at most once, also when the transport fails after the request was sent and
\* withRetry is in effect.
C24_SubmittedAtMostOnce ==
    kf.op = "send" => Cardinality({i \in 1..Len(wire) : wire[i].taken}) <= 1


\* How many entries of a list are about this device and satisfy the test.
CountFor(list, simId, Test(_)) ==
    Cardinality({i \in 1..Len(list) : list[i].simId = simId /\ Test(list[i])})
IsQueued(entry) == entry.status = "queued"
AnyEntry(entry) == TRUE

\* C25: when a dispatch has answered, every device has as many `queued` entries as
\* commands the provider accepted for it and as many outbound log rows, so a device
\* with an `error` entry and no other has no accepted command, also when writing
\* the log row failed.
C25_QueuedIffAccepted ==
    (dp.pc = "done" /\ response = OkResponse) =>
        \A k \in 1..Len(DbSims) :
            /\ CountFor(results, DbSims[k].id, IsQueued) = CountFor(sent, DbSims[k].id, AnyEntry)
            /\ CountFor(logs, DbSims[k].id, AnyEntry) = CountFor(sent, DbSims[k].id, AnyEntry)


\* The account that owns a stored fleet.
FleetAccount(fleetId) ==
    (CHOOSE f \in {DbFleets[i] : i \in 1..Len(DbFleets)} : f.id = fleetId).accountId

\* C26: at every point of every sequence of syncDevices runs, each Sim row's account
\* is the account of the fleet the row references, also for a device that was
\* stored under another account or is listed under two fleets.
C26_SimAccountIsFleetAccount ==
    \A r \in simTable : r.accountId = FleetAccount(r.fleetId)

\* The device d1, stored before under account A2 and its fleet F3, was synced under
\* fleet F1 of account A1 and its row moved there; d2, listed under F1 and F2, ended
\* under F2.
C26_Witness ==
    /\ sy.pc = "done"
    /\ SimRow(1, "d1", "A1", "F1", "i1", "active") \in simTable
    /\ \E r \in simTable : r.simSid = "d2" /\ r.fleetId = "F2" /\ r.accountId = "A1"


\* C27: dispatch submits a command for a device only with the credentials of the
\* account its target group names, and only when the device's stored account is that
\* account; a group whose identifiers match only devices of other accounts resolves
\* nothing and gets the one error entry for that.
C27_NoCrossTenantCommand ==
    /\ \A i \in 1..Len(sent) : SimById(sent[i].simId).accountId = sent[i].accountId
    /\ dp.pc \in {"send", "log", "sleep"} =>
          dp.sims[dp.si].accountId = dp.groups[dp.gi].accountId
    /\ \A i \in 1..Len(results) : results[i].simId # "" =>
          SimById(results[i].simId).accountId = results[i].accountId
    /\ (dp.pc = "done" /\ response = OkResponse) =>
          \A g \in 1..Len(dp.groups) :
              (/\ dp.groups[g].accountId \in Accounts
               /\ ~NoIdentifiers(dp.groups[g])
               /\ \A k \in 1..Len(DbSims) :
                     DbSims[k].accountId = dp.groups[g].accountId =>
                        /\ DbSims[k].id \notin dp.groups[g].simIds
                        /\ DbSims[k].iccid \notin dp.groups[g].iccids
                        /\ DbSims[k].uniqueName \notin dp.groups[g].uniqueNames)
              => \E i \in 1..Len(results) :
                    results[i] = Result("error", dp.groups[g].accountId, "",
                                        "No SIMs resolved for target")

\* A group of account A1 named the device s3 of account A2 and resolved nothing; the
\* next group, of account A2, named the same device and the command was submitted
\* with A2's credentials.
C27_Witness ==
    /\ dp.pc = "done" /\ response = OkResponse
    /\ Len(dp.groups) = 2
    /\ dp.groups[1].accountId = "A1" /\ dp.groups[1].simIds = {"s3"}
    /\ dp.groups[2].accountId = "A2"
    /\ results[1] = Result("error", "A1", "", "No SIMs resolved for target")
    /\ Len(sent) = 1 /\ sent[1].simId = "s3" /\ sent[1].accountId = "A2"


\* The handlers running, the times an item was handed to a worker, and the retries
\* the call allows per item.
RunningCount == Cardinality({w \in PlWorkers : pl.workers[w].pc = "run"})
StartsOf(item) == Cardinality({k \in 1..Len(plStarted) : plStarted[k].item = item})
SequentialCase == pl.limit <= 1 \/ pl.n = 0
AllowedRetries ==
    IF pl.option # Absent THEN pl.option ELSE IF SequentialCase THEN 4 ELSE 3

\* C28: parallelLimit never has more than `limit` handlers running at once (one when
\* limit <= 1, where it is sequentialProcess); items are handed to workers in index
\* order, each at most once, and all of them once the call resolved; an item is held
\* by one worker, which makes its attempts one after another and no more than the
\* retries allow; with limit <= 1 or an empty list one loop alone takes the items,
\* with the retries of sequentialProcess.
C28_BoundedParallelism ==
    pl.pc = "running" =>
        /\ RunningCount <= (IF SequentialCase THEN 1 ELSE pl.limit)
        /\ \A i \in 1..pl.n : StartsOf(i) <= 1
        /\ \A k \in 1..Len(plStarted) : plStarted[k].item = k
        /\ plResult = "resolved" => Len(plStarted) = pl.n
        /\ (\A w \in PlWorkers : pl.workers[w].pc # "failed") =>
              Len(plStarted) = (IF pl.index < pl.n THEN pl.index ELSE pl.n)
        /\ \A i \in 1..pl.n :
              Cardinality({w \in PlWorkers : /\ pl.workers[w].item = i
                                             /\ pl.workers[w].pc \in {"run", "sleep"}}) <= 1
        /\ \A w \in PlWorkers :
              /\ pl.workers[w].attempt <= AllowedRetries + 1
              /\ pl.workers[w].pc = "failed" <=> pl.workers[w].attempt = AllowedRetries + 1
        /\ SequentialCase =>
              /\ \A w \in PlWorkers : w > 1 => pl.workers[w] = NoWorker
              /\ \A k \in 1..Len(plStarted) : plStarted[k].worker = 1
              /\ plResult = "rejected" => pl.workers[1].pc = "failed"

\* Three items under limit 2: both workers took items, two handlers ran at once,
\* an item was retried, and the call resolved with every item handed out once.
C28_Witness ==
    /\ pl.n = 3 /\ pl.limit = 2 /\ plResult = "resolved"
    /\ Len(plStarted) = 3
    /\ {plStarted[k].worker : k \in 1..3} = {1, 2}
    /\ \E w \in PlWorkers : pl.workers[w].attempt > 0


\* C29: within one syncDevices run the account at hand changes only to the next one,
\* and only when the account's secret did not decrypt, when every target fleet of it
\* is through, or when its handler threw for good (its error entry is written); the
\* fleet at hand changes only to the next one of the same account, after every
\* device of the fleet was upserted or the fleet was skipped; devices are upserted
\* one by one in list order, each row written being the device at hand under the
\* account and fleet at hand. Every state has one request or upsert at hand.
C29_StrictlySequential ==
    [][ /\ (sy.pc \in {"account", "fleet", "upsert"} /\ sy'.ai # sy.ai /\ sy'.pc # "start") =>
              /\ sy'.ai = sy.ai + 1 /\ sy'.pc = "account"
              /\ \/ sy.pc = "account"
                 \/ sy.pc = "fleet" /\ sy.fi > Len(sy.fleets)
                 \/ /\ Len(summary') = Len(summary) + 1
                    /\ summary'[Len(summary')] =
                          Entry(sy.accounts[sy.ai], None, Absent, summary'[Len(summary')].error)
                    /\ summary'[Len(summary')].error # ""
        /\ (sy.pc \in {"fleet", "upsert"} /\ sy'.pc \in {"fleet", "upsert"} /\ sy'.fi # sy.fi) =>
              /\ sy'.fi = sy.fi + 1 /\ sy'.ai = sy.ai
              /\ \/ sy.pc = "upsert" /\ sy.si > Len(sy.sims)
                 \/ sy.pc = "fleet" /\ syWarned' # syWarned
        /\ (sy.pc = "upsert" /\ sy'.pc = "upsert" /\ sy'.si # sy.si) =>
              /\ sy'.si = sy.si + 1 /\ sy'.fi = sy.fi /\ sy'.ai = sy.ai
        /\ simTable' # simTable =>
              /\ sy.pc = "upsert" /\ sy.si <= Len(sy.sims) /\ sy'.si = sy.si + 1
              /\ \A r \in simTable' \ simTable :
                    /\ r.simSid = sy.sims[sy.si]
                    /\ r.accountId = sy.accounts[sy.ai]
                    /\ r.fleetId = sy.fleets[sy.fi]
      ]_vars

\* The owner's run went through both fleets of account A1, in order, before the
\* fleet of account A2, and wrote devices for each.
C29_Witness ==
    /\ sy.pc = "done" /\ syResponse = OkResponse /\ sy.run = 1
    /\ Len(summary) >= 3
    /\ summary[1].accountId = "A1" /\ summary[1].fleetId = "F1" /\ summary[1].synced > 0
    /\ summary[2].accountId = "A1" /\ summary[2].fleetId = "F2" /\ summary[2].synced > 0
    /\ summary[3].accountId = "A2" /\ summary[3].fleetId = "F3" /\ summary[3].synced > 0


\* C30: within one candidate every request of listSimsFromKore is for a page url
\* not requested before for that candidate, the urls requested being those in
\* `visited`; so a candidate takes no more requests than there are page urls, and
\* the listing ends, by return or by throw, whatever the provider answers and links
\* to, a link back to a page already fetched included.
C30_EachPageOnce ==
    /\ [][ /\ ls.nextPath # 0 /\ ls.nextPath \notin ls.visited
           /\ ls'.cand = ls.cand => ls'.visited = ls.visited \cup {ls.nextPath}
           /\ ls'.cand # ls.cand => ls'.visited = {} ]_vars
    /\ [](Cardinality(ls.visited) <= MaxPages)
    /\ <>(ls.pc \in {"done", "thrown"})

\* The second page of a candidate linked back to the first: both pages were
\* requested once and the listing returned.
C30_Witness ==
    /\ ls.pc = "done"
    /\ ls.visited = {1, 2}
    /\ ls.nextPath = 1
    /\ ls.fetchedAny

\* ------------------------------------------------------- specifications
InitSpecRetry == InitRetry /\ InitClock /\ IdleRL /\ InitTok /\ IdleList /\ IdleDispatch /\ IdleSync /\ IdleFleets /\ IdleUserScopes /\ IdleAccounts /\ IdleScopes /\ IdleThird
InitSpecRL    == InitRL /\ InitClock /\ IdleRetry /\ InitTok /\ IdleList /\ IdleDispatch /\ IdleSync /\ IdleFleets /\ IdleUserScopes /\ IdleAccounts /\ IdleScopes /\ IdleThird
InitSpecTok   == InitTok /\ InitClock /\ IdleRL /\ IdleRetry /\ IdleList /\ IdleDispatch /\ IdleSync /\ IdleFleets /\ IdleUserScopes /\ IdleAccounts /\ IdleScopes /\ IdleThird
InitSpecList  == InitList /\ InitClock /\ IdleRL /\ IdleRetry /\ InitTok /\ IdleDispatch /\ IdleSync /\ IdleFleets /\ IdleUserScopes /\ IdleAccounts /\ IdleScopes /\ IdleThird
InitSpecDisp  == InitDispatch /\ InitDispatchGate /\ IdleRetry /\ InitTok /\ IdleList /\ IdleSync /\ IdleFleets /\ IdleUserScopes /\ IdleAccounts /\ IdleScopes /\ IdleThird
InitSpecSync  == InitSync /\ InitClock /\ IdleRL /\ IdleRetry /\ InitTok /\ IdleList /\ IdleDispatch /\ IdleFleets /\ IdleUserScopes /\ IdleAccounts /\ IdleScopes /\ IdleThird
InitSpecFleets == InitFleets /\ InitClock /\ IdleRL /\ IdleRetry /\ InitTok /\ IdleList /\ IdleDispatch /\ IdleSync /\ IdleAccounts /\ IdleScopes /\ IdleThird
InitSpecAccounts == InitAccounts /\ InitClock /\ IdleRL /\ IdleRetry /\ InitTok /\ IdleList /\ IdleDispatch /\ IdleSync /\ IdleFleets /\ IdleScopes /\ IdleThird
InitSpecScopes == InitScopes /\ InitClock /\ IdleRL /\ IdleRetry /\ InitTok /\ IdleList /\ IdleDispatch /\ IdleSync /\ IdleFleets /\ IdleUserScopes /\ IdleAccounts /\ IdleThird
InitSpecConc == InitConc /\ InitClock /\ IdleRL /\ IdleRetry /\ InitTok /\ IdleList /\ IdleDispatch /\ IdleSync /\ IdleFleets /\ IdleUserScopes /\ IdleScopes /\ IdleKore /\ IdlePar
InitSpecKore == InitKore /\ InitClock /\ IdleRL /\ IdleRetry /\ InitTok /\ IdleList /\ IdleDispatch /\ IdleSync /\ IdleFleets /\ IdleUserScopes /\ IdleAccounts /\ IdleScopes /\ IdleConc /\ IdlePar
InitSpecPar == InitPar /\ InitClock /\ IdleRL /\ IdleRetry /\ InitTok /\ IdleList /\ IdleDispatch /\ IdleSync /\ IdleFleets /\ IdleUserScopes /\ IdleAccounts /\ IdleScopes /\ IdleConc /\ IdleKore

SpecRetry == InitSpecRetry /\ [][NextRetry]_vars
SpecRL    == InitSpecRL /\ [][NextRL]_vars
SpecTok   == InitSpecTok /\ [][NextTok]_vars
SpecList  == InitSpecList /\ [][NextList]_vars
\* Every koreFetch settles: fetchWithTimeout aborts after 20 s (kore.ts:127-138) and
\* withRetry gives up after its retries (retry.ts:14), so a request that is due is
\* answered.
SpecListLive == InitSpecList /\ [][NextList]_vars /\ WF_vars(NextList)
SpecDisp  == InitSpecDisp /\ [][NextDisp]_vars
SpecSync  == InitSpecSync /\ [][NextSync]_vars
SpecFleets == InitSpecFleets /\ [][NextFleets]_vars
SpecAccounts == InitSpecAccounts /\ [][NextAccounts]_vars
SpecScopes == InitSpecScopes /\ [][NextScopes]_vars
SpecConc == InitSpecConc /\ [][NextConc]_vars
SpecKore == InitSpecKore /\ [][NextKore]_vars
SpecPar == InitSpecPar /\ [][NextPar]_vars

====
